---------------------------- MODULE Spec2Model ----------------------------
(***************************************************************************)
(* Model of the simulation core of ai-pm-buddy-v2:                         *)
(*   src/modules/simulation/risk_simulator.py                              *)
(*     show_monte_carlo_simulation, run_monte_carlo_simulation,            *)
(*     analyze_risk_impacts, convert_level_to_score, generate_impact_level *)
(*     show_mitigation_strategies, calculate_risk_score                    *)
(*   src/modules/simulation/what_if_analysis.py                            *)
(*     show_resource_scenarios, show_budget_scenarios                      *)
(*                                                                         *)
(* Numbers.  The code computes with floats; the model computes the same    *)
(* quantities exactly, as integers in fixed units:                         *)
(*   - an uncertainty is an integer number of percent (the view passes     *)
(*     uncertainty_level / 100, line 81), so 1 - uncertainty is            *)
(*     (Scale - uncertainty) / Scale;                                      *)
(*   - a task's 'duration' is an integer number of days; simulated         *)
(*     durations, totals and dates are in 1/Scale day;                     *)
(*   - percentiles are in 1/(Scale * Scale) day;                           *)
(*   - radar and combined scores are fractions [num, den].                 *)
(* The code is single threaded (one Streamlit script run at a time), so    *)
(* one call is in progress at a time: pc says which, and where it is.      *)
(***************************************************************************)
EXTENDS Integers, Sequences, FiniteSets, TLC

VARIABLES
    pc,                           \* position of the call in progress
    now,                          \* the latest reading of datetime.datetime.now()
    caller,                       \* "api": a direct call; "view": the button
    wbs,                          \* project_data['wbs'] (view)
    critical_path_focus,          \* the checkbox (view)
    confidence_levels,            \* the multiselect (view)
    tasks,                        \* run_monte_carlo_simulation's arguments
    uncertainty,
    num_iterations,
    baseline_start,               \* its locals
    simulated_durations,          \* the samples of the latest trial
    simulation_durations,
    simulation_completion_dates,
    raised,                       \* the exception that ended the call, or "none"
    simulation_results,           \* what the call returned, or NoResult
    warning,                      \* the st.warning the view showed, or "none"
    confidence_results,           \* the view's confidence table
    risks,                        \* analyze_risk_impacts's arguments
    objectives,
    impact_matrix,                \* its locals
    risk_scores,
    base_scores,                  \* severity_score, probability_score and
                                  \* base_score of each risk handled so far
    impact_results,               \* what the call returned, or NoImpactResult
    impact_level_call,            \* a direct call of generate_impact_level: its
                                  \* arguments, its draw and what it returned
    project_risks,                \* project_data['risks'] (mitigation view)
    selected_risk_desc,           \* the selectbox
    selected_risk,                \* the risk found for it, or NoRisk
    strategies,                   \* the lines of the text area
    implementation_costs,         \* the number inputs, one per strategy
    probability_reduction,        \* the two sliders, in percent
    impact_reduction,
    initial_score,                \* calculate_risk_score(selected_risk)
    mitigation_results,           \* the view's list simulation_results
    best_strategy,                \* the recommended strategy, or NoStrategy
    notice,                       \* the st.warning or st.error shown, or "none"
    resources,                    \* project_data['resources'] (resource view)
    allow_overallocation,         \* the checkbox
    max_overallocation,           \* the slider, in percent
    scenario_resources,           \* the deep copy the scenario works on
    remaining_allocation,         \* work not yet handed out
    sorted_resources,             \* the resources the loop has yet to visit
    resource_scenarios,           \* st.session_state.resource_scenarios
    resource_notice,              \* the st.warning or st.error shown, or "none"
    budget,                       \* project_data['budget'] as the view uses it
    budget_inputs,                \* the widgets of the budget view
    scenario_budget,              \* the names the handler binds: the copy of
    scenario_categories,          \* the budget, its 'categories' and 'spent'
    scenario_spent,
    scenario_totals,              \* scenario_total_budget, _spent, _remaining
    chart_categories,             \* the categories the chart loop has yet to visit
    chart_data,
    budget_scenarios,             \* st.session_state.budget_scenarios
    budget_notice                 \* the st.warning or st.error shown, or "none"

mc_vars == <<caller, wbs, critical_path_focus, confidence_levels,
             tasks, uncertainty, num_iterations, baseline_start,
             simulated_durations, simulation_durations, simulation_completion_dates,
             simulation_results, warning, confidence_results>>

ria_vars == <<risks, objectives, impact_matrix, risk_scores, base_scores,
              impact_results>>

gil_vars == <<impact_level_call>>

mit_vars == <<project_risks, selected_risk_desc, selected_risk, strategies,
              implementation_costs, probability_reduction, impact_reduction,
              initial_score, mitigation_results, best_strategy, notice>>

res_vars == <<resources, allow_overallocation, max_overallocation,
              scenario_resources, remaining_allocation, sorted_resources,
              resource_scenarios, resource_notice>>

bud_vars == <<budget, budget_inputs, scenario_budget, scenario_categories,
              scenario_spent, scenario_totals, chart_categories, chart_data,
              budget_scenarios, budget_notice>>

wia_vars == <<res_vars, bud_vars>>

vars == <<pc, now, raised, mc_vars, ria_vars, gil_vars, mit_vars, wia_vars>>

-----------------------------------------------------------------------------
(* Bounds of the model *)

MaxTasks == 2          \* longest task list drawn
MaxIterations == 2     \* largest num_iterations drawn
MaxClock == 1          \* the clock reads day 0 to day MaxClock
SampleGrid == 1        \* a sample of the continuous triangular distribution is
                       \* one of SampleGrid + 1 evenly spaced points, or the mode

MaxRisks == 2          \* longest risk list drawn
RandomGrid == 2        \* random.random() is one of RandomGrid evenly spaced
                       \* points of [0, 1), or 0.5, or 0.75, or 0.99

(* 1/Scale is the unit of uncertainty (percent) and of simulated durations *)
Scale == 100

NoResult == [durations |-> <<>>, completion_dates |-> <<>>, returned |-> FALSE]

NoImpactResult ==
    [impact_matrix |-> <<>>, risk_scores |-> <<>>,
     combined_impact |-> [objectives |-> <<>>, impact_scores |-> <<>>],
     returned |-> FALSE]

NoImpactLevelCall == [returned |-> FALSE]

NoRisk == [found |-> FALSE]

NoStrategy == [recommended |-> FALSE]

-----------------------------------------------------------------------------
(* Python helpers *)

\* dict.get(key, default)
Get(d, key, default) == IF key \in DOMAIN d THEN d[key] ELSE default

RECURSIVE SumSeq(_)
SumSeq(s) == IF s = <<>> THEN 0 ELSE Head(s) + SumSeq(Tail(s))

\* min(...) of a non-empty sequence
MinSeq(s) == CHOOSE x \in {s[i] : i \in DOMAIN s} : \A j \in DOMAIN s : x <= s[j]

\* [t for t in s if keep(t)]
SelectCritical_keeps_all(s) == s

RECURSIVE SelectCritical(_)
SelectCritical(s) ==
    IF s = <<>> THEN <<>>
    ELSE IF Get(Head(s), "critical", FALSE)
         THEN <<Head(s)>> \o SelectCritical(Tail(s))
         ELSE SelectCritical(Tail(s))

\* d[k] = v on a dictionary: the key is added, or its value replaced
DictSet(d, k, v) == [x \in (DOMAIN d) \cup {k} |-> IF x = k THEN v ELSE d[x]]

\* str.lower() on the strings the model draws
Lower(s) ==
    CASE s = "High" -> "high"
      [] s = "HIGH" -> "high"
      [] s = "H" -> "h"
      [] s = "Medium" -> "medium"
      [] s = "Med" -> "med"
      [] s = "M" -> "m"
      [] s = "Low" -> "low"
      [] s = "LOW" -> "low"
      [] s = "L" -> "l"
      [] s = "Schedule" -> "schedule"
      [] s = "Technical" -> "technical"
      [] s = "Legal" -> "legal"
      [] OTHER -> s

\* all sequences over S of length 0..n
SeqsUpTo(S, n) == UNION {[1..k -> S] : k \in 0..n}

-----------------------------------------------------------------------------
(* Inputs *)

\* Task dictionaries: with and without 'duration', with and without 'critical'
TaskRecords ==
    { [id |-> "T1", duration |-> 0],
      [id |-> "T2", duration |-> 1, critical |-> FALSE],
      [id |-> "T3", duration |-> 2, critical |-> TRUE],
      [id |-> "T4", critical |-> TRUE] }

TaskLists == SeqsUpTo(TaskRecords, MaxTasks)

\* The scenario of the specification's section 8, item 6
ExampleTasks == << [id |-> "A", duration |-> 10, critical |-> TRUE],
                   [id |-> "B", duration |-> 20, critical |-> TRUE],
                   [id |-> "C", duration |-> 5, critical |-> TRUE] >>

\* uncertainty, in percent, of a direct call: negative, zero, one, above one
Uncertainties == {-50, 0, 100, 150}

\* the view's slider "Task Duration Uncertainty (%)": 5..50 in steps of 5
SliderUncertainties == {5, 50}

IterationCounts == -1..MaxIterations

\* the view's slider "Number of Simulation Runs": 100..10000 in the code, every
\* value at least 1; the model's slider stands at two runs
SliderRuns == {2}

ConfidenceLabels == {"50%", "80%", "90%", "95%"}

\* The direct calls drawn: every task list with every uncertainty and count,
\* and the section 8 scenario with uncertainty 0
ApiCalls ==
    [tasks : TaskLists, uncertainty : Uncertainties, num_iterations : IterationCounts]
    \cup [tasks : {ExampleTasks}, uncertainty : {0}, num_iterations : IterationCounts]

\* Risk dictionaries: levels in several spellings, unknown levels, missing
\* fields, a repeated description, categories in and out of the weight table
RiskRecords ==
    { [description |-> "Vendor delay", severity |-> "High", probability |-> "High",
       category |-> "schedule"],
      [description |-> "Vendor delay", severity |-> "unknown_string",
       probability |-> "Medium", category |-> "Technical"],
      [description |-> "Scope creep", severity |-> "H", probability |-> "l",
       category |-> "scope"],
      [severity |-> "LOW", probability |-> "low", category |-> "Legal"],
      [description |-> "Budget cut", probability |-> "critical", impact |-> "High"] }

RiskLists == SeqsUpTo(RiskRecords, MaxRisks)

\* Objective lists: none, one, the view's default three, an objective that is
\* not in the weight table, a repeated objective
ObjectiveLists ==
    { <<>>,
      <<"Schedule">>,
      <<"Schedule", "Budget", "Scope">>,
      <<"Quality", "Custom">>,
      <<"Resources", "Resources">> }

\* Arguments of a direct call of generate_impact_level: the categories of the
\* weight table, one that is not in it, and the empty string of a risk without
\* 'category'; the objectives of the table and one that is not in it; the
\* base scores analyze_risk_impacts can pass
RiskCategories == {"technical", "schedule", "cost", "resource", "scope",
                   "quality", "external", "legal", ""}

ObjectiveLabels == {"Schedule", "Budget", "Scope", "Quality", "Resources", "Custom"}

BaseScores == {1, 2, 3, 4, 6, 9}

\* project_data['risks'] of the mitigation view: no risk; a risk of the RAID
\* log, with 'impact' and no 'severity'; two risks with one description, one
\* with 'severity' and no 'impact', one with both; a risk without description
KeyLeadRisk ==
    [description |-> "Key lead unavailable", impact |-> "High",
     probability |-> "High", mitigation |-> "Cross-train a backup"]

VendorRisk ==
    [description |-> "Vendor delay", severity |-> "High", probability |-> "High",
     category |-> "schedule"]

VendorRiskFreeText ==
    [description |-> "Vendor delay", severity |-> "Low", probability |-> "High",
     impact |-> "significant delays"]

UnnamedRisk == [severity |-> "LOW", probability |-> "low", category |-> "Legal"]

ProjectRiskLists ==
    { <<>>,
      <<KeyLeadRisk>>,
      <<VendorRisk, VendorRiskFreeText>>,
      <<VendorRiskFreeText, VendorRisk>>,
      <<UnnamedRisk, KeyLeadRisk>> }

\* the lines of the text area: none, one, two, a repeated line, three
StrategyLists ==
    { <<>>,
      <<"Avoid">>,
      <<"Avoid", "Transfer">>,
      <<"Accept", "Accept">>,
      <<"Avoid", "Transfer", "Accept">> }

\* the number input "Cost ($)": 0..1000000; the model's costs are whole
\* thousands of dollars, and a cost is counted in thousands
Costs == {0, 5, 20}

\* the sliders "Probability Reduction Potential (%)" and "Impact Reduction
\* Potential (%)": 0..100 in steps of 5; their defaults, and both at 100
SliderReductions ==
    { [probability_reduction |-> 50, impact_reduction |-> 30],
      [probability_reduction |-> 100, impact_reduction |-> 100] }

\* random.random() of lines 472-473, in hundredths: multiples of 5, so that
\* 0.8 + 0.4 * r is a whole number of hundredths
effectiveness_draws == {0, 95}

-----------------------------------------------------------------------------
(* random.triangular(low, high, mode), line 611.  The library computes       *)
(*   c = (mode - low) / (high - low), returning low on ZeroDivisionError,    *)
(* and otherwise a point between low and high.  The outcomes are the points  *)
(* low + k * (high - low) / SampleGrid, k = 0..SampleGrid, and the mode.     *)

triangular_degenerate_raises(low, high, mode) ==
    IF high = low
    THEN {[exc |-> "ZeroDivisionError", val |-> 0]}
    ELSE {[exc |-> "none", val |-> x] :
            x \in {low + (k * (high - low)) \div SampleGrid : k \in 0..SampleGrid}
                  \cup {mode}}

triangular(low, high, mode) ==
    IF high = low
    THEN {[exc |-> "none", val |-> low]}
    ELSE {[exc |-> "none", val |-> x] :
            x \in {low + (k * (high - low)) \div SampleGrid : k \in 0..SampleGrid}
                  \cup {mode}}

\* line 592: {i: task.get('duration', 0) for i, task in enumerate(tasks)}
baseline_durations(ts) == [i \in DOMAIN ts |-> Get(ts[i], "duration", 0)]

\* lines 605-611: one sample per task
simulated_duration_lower_bound_wrong(base_duration, u) ==
    LET min_duration == base_duration * u
        max_duration == base_duration * (Scale + u)
    IN  triangular(min_duration, max_duration, base_duration * Scale)

simulated_duration(base_duration, u) ==
    LET min_duration == base_duration * (Scale - u)
        max_duration == base_duration * (Scale + u)
    IN  triangular(min_duration, max_duration, base_duration * Scale)

\* lines 603-611: the sample vectors one trial can draw, one sample per task
RECURSIVE simulated_durations_outcomes(_, _)
simulated_durations_outcomes(durs, u) ==
    IF durs = <<>>
    THEN {<<>>}
    ELSE {<<a>> \o b : a \in simulated_duration(Head(durs), u),
                       b \in simulated_durations_outcomes(Tail(durs), u)}

\* the exception a sample vector carries, or "none"
RECURSIVE first_exception(_)
first_exception(samples) ==
    IF samples = <<>> THEN "none"
    ELSE IF Head(samples).exc # "none" THEN Head(samples).exc
    ELSE first_exception(Tail(samples))

\* line 615: sum(simulated_durations.values())
total_duration_longest_task(samples) ==
    IF samples = <<>> THEN 0
    ELSE CHOOSE x \in {samples[i] : i \in DOMAIN samples} :
            \A j \in DOMAIN samples : x >= samples[j]

total_duration(samples) == SumSeq(samples)

\* line 618: baseline_start + timedelta(days=total_duration)
completion_date_without_start(start, total) == total

completion_date(start, total) == start + total

-----------------------------------------------------------------------------
(* np.percentile(a, q), line 113: linear interpolation between the order     *)
(* statistics around index (n - 1) * q / 100 of the sorted data.  The value  *)
(* is in 1/Scale of a's unit (q is a whole number of percent).               *)

percentile_without_sort(a, q) ==
    LET pos   == (Len(a) - 1) * q
        lo    == pos \div Scale
        gamma == pos % Scale
    IN  IF lo + 2 <= Len(a)
        THEN a[lo + 1] * Scale + (a[lo + 2] - a[lo + 1]) * gamma
        ELSE a[lo + 1] * Scale

percentile(a, q) ==
    LET sorted == SortSeq(a, <)
        pos    == (Len(sorted) - 1) * q
        lo     == pos \div Scale
        gamma  == pos % Scale
    IN  IF lo + 2 <= Len(sorted)
        THEN sorted[lo + 1] * Scale + (sorted[lo + 2] - sorted[lo + 1]) * gamma
        ELSE sorted[lo + 1] * Scale

\* lines 103-108
confidence_percentiles ==
    [level \in ConfidenceLabels |->
        CASE level = "50%" -> 50
          [] level = "80%" -> 80
          [] level = "90%" -> 90
          [] level = "95%" -> 95]

\* lines 98, 110-118: the table of the selected levels
confidence_table(results, selected) ==
    LET min_date == MinSeq(results.completion_dates)
    IN  [level \in selected |->
            LET days_percentile == percentile(results.durations,
                                              confidence_percentiles[level])
            IN  [days |-> days_percentile,
                 date |-> min_date * Scale
                          + (days_percentile - MinSeq(results.durations) * Scale)]]

-----------------------------------------------------------------------------
(* The risk impact scorer *)

\* lines 787-806
convert_level_to_score_unknown_is_low(level) ==
    LET level_lower == Lower(level)
    IN  IF level_lower \in {"high", "h"} THEN 3
        ELSE IF level_lower \in {"medium", "med", "m"} THEN 2
        ELSE 1

convert_level_to_score_unknown_is_zero(level) ==
    LET level_lower == Lower(level)
    IN  IF level_lower \in {"high", "h"} THEN 3
        ELSE IF level_lower \in {"medium", "med", "m"} THEN 2
        ELSE IF level_lower \in {"low", "l"} THEN 1
        ELSE 0

convert_level_to_score_zero_based(level) ==
    LET level_lower == Lower(level)
    IN  IF level_lower \in {"high", "h"} THEN 2
        ELSE IF level_lower \in {"medium", "med", "m"} THEN 1
        ELSE IF level_lower \in {"low", "l"} THEN 0
        ELSE 1

convert_level_to_score(level) ==
    LET level_lower == Lower(level)
    IN  IF level_lower \in {"high", "h"} THEN 3
        ELSE IF level_lower \in {"medium", "med", "m"} THEN 2
        ELSE IF level_lower \in {"low", "l"} THEN 1
        ELSE 2

\* lines 822-872, the weights in tenths
category_impact ==
    [ technical |-> [Schedule |-> 7, Budget |-> 5, Scope |-> 3, Quality |-> 8,
                     Resources |-> 4],
      schedule  |-> [Schedule |-> 9, Budget |-> 6, Scope |-> 3, Quality |-> 4,
                     Resources |-> 5],
      cost      |-> [Schedule |-> 4, Budget |-> 9, Scope |-> 5, Quality |-> 3,
                     Resources |-> 6],
      resource  |-> [Schedule |-> 7, Budget |-> 5, Scope |-> 3, Quality |-> 6,
                     Resources |-> 9],
      scope     |-> [Schedule |-> 6, Budget |-> 7, Scope |-> 9, Quality |-> 5,
                     Resources |-> 4],
      quality   |-> [Schedule |-> 5, Budget |-> 4, Scope |-> 3, Quality |-> 9,
                     Resources |-> 4],
      external  |-> [Schedule |-> 7, Budget |-> 6, Scope |-> 5, Quality |-> 4,
                     Resources |-> 6] ]

\* lines 875-881, in tenths
default_impact_uniform ==
    [Schedule |-> 5, Budget |-> 5, Scope |-> 5, Quality |-> 5, Resources |-> 5]

default_impact ==
    [Schedule |-> 6, Budget |-> 6, Scope |-> 5, Quality |-> 5, Resources |-> 5]

\* random.random(), line 888: a point of [0, 1), in hundredths
random_outcomes ==
    {(k * 100) \div RandomGrid : k \in 0..(RandomGrid - 1)} \cup {50, 75, 99}

\* lines 884-885: the weight of the category on the objective, in tenths
impact_prob(risk_category, objective) ==
    LET category_impacts == Get(category_impact, risk_category, default_impact)
    IN  Get(category_impacts, objective, 5)

\* lines 884-896 for one draw r of random.random(), in hundredths.
\*   adjusted_prob = impact_prob * (base_score / 4.5) * (0.8 + 0.4 * r)
\* is (w * base_score * (800 + 4 * r)) / 45000 with the weight w in tenths, so
\* adjusted_prob > 0.66 is w * base_score * (800 + 4 * r) > 29700, and
\* adjusted_prob > 0.33 is w * base_score * (800 + 4 * r) > 14850
impact_level_of_draw_inclusive(risk_category, objective, base_score, r) ==
    LET adjusted_prob == impact_prob(risk_category, objective) * base_score
                         * (800 + 4 * r)
    IN  IF adjusted_prob >= 29700 THEN "High"
        ELSE IF adjusted_prob >= 14850 THEN "Medium"
        ELSE "Low"

impact_level_of_draw_base_over_45(risk_category, objective, base_score, r) ==
    LET adjusted_prob == impact_prob(risk_category, objective) * base_score
                         * (800 + 4 * r)
    IN  IF adjusted_prob > 297000 THEN "High"
        ELSE IF adjusted_prob > 148500 THEN "Medium"
        ELSE "Low"

impact_level_of_draw_falling_in_base(risk_category, objective, base_score, r) ==
    LET adjusted_prob == impact_prob(risk_category, objective) * (10 - base_score)
                         * (800 + 4 * r)
    IN  IF adjusted_prob > 29700 THEN "High"
        ELSE IF adjusted_prob > 14850 THEN "Medium"
        ELSE "Low"

impact_level_of_draw(risk_category, objective, base_score, r) ==
    LET adjusted_prob == impact_prob(risk_category, objective) * base_score
                         * (800 + 4 * r)
    IN  IF adjusted_prob > 29700 THEN "High"
        ELSE IF adjusted_prob > 14850 THEN "Medium"
        ELSE "Low"

\* lines 808-896: the levels a call can return
generate_impact_level(risk_category, objective, base_score) ==
    {impact_level_of_draw(risk_category, objective, base_score, r) :
        r \in random_outcomes}

\* lines 660-670: the inner loop over the objectives not yet handled, from the
\* row and the scores built so far; the set of [row, scores] it can end with.
\* A score impact_score * 10 / 3 is the fraction [num, den].
RECURSIVE objective_loop_scores_prepended(_, _, _, _, _)
objective_loop_scores_prepended(risk, base_score, objs, impact_row, objective_scores) ==
    IF objs = <<>>
    THEN {[row |-> impact_row, scores |-> objective_scores]}
    ELSE LET objective == Head(objs)
             risk_category == Lower(Get(risk, "category", ""))
         IN  UNION { objective_loop_scores_prepended(risk, base_score, Tail(objs),
                        DictSet(impact_row, objective, impact_level),
                        <<[num |-> convert_level_to_score(Lower(impact_level)) * 10,
                           den |-> 3]>> \o objective_scores) :
                     impact_level \in generate_impact_level(risk_category,
                                                            objective, base_score) }

RECURSIVE objective_loop(_, _, _, _, _)
objective_loop(risk, base_score, objs, impact_row, objective_scores) ==
    IF objs = <<>>
    THEN {[row |-> impact_row, scores |-> objective_scores]}
    ELSE LET objective == Head(objs)
             risk_category == Lower(Get(risk, "category", ""))
         IN  UNION { objective_loop(risk, base_score, Tail(objs),
                        DictSet(impact_row, objective, impact_level),
                        Append(objective_scores,
                               [num |-> convert_level_to_score(Lower(impact_level)) * 10,
                                den |-> 3])) :
                     impact_level \in generate_impact_level(risk_category,
                                                            objective, base_score) }

\* lines 684-688: the combined score of one objective, sum / len * 10 / 3 as
\* the fraction [num, den]; den = 0 is the division by len(impact_scores) = 0
combined_score_unscaled(matrix, objective) ==
    LET impact_levels == [i \in DOMAIN matrix |-> Lower(matrix[i][objective])]
        impact_scores == [i \in DOMAIN matrix |->
                             convert_level_to_score(impact_levels[i])]
    IN  [num |-> SumSeq(impact_scores), den |-> Len(impact_scores)]

combined_score(matrix, objective) ==
    LET impact_levels == [i \in DOMAIN matrix |-> Lower(matrix[i][objective])]
        impact_scores == [i \in DOMAIN matrix |->
                             convert_level_to_score(impact_levels[i])]
    IN  [num |-> SumSeq(impact_scores) * 10, den |-> Len(impact_scores) * 3]

-----------------------------------------------------------------------------
(* The mitigation strategy ranking.  A slider is a multiple of 5 percent and *)
(* the jitter 0.8 + 0.4 * r a whole number of hundredths, so that            *)
(* 1 - effectiveness is a whole number of 1/EffectScale; a new score is the  *)
(* fraction [num, den] with den = EffectScale * EffectScale, a reduction is  *)
(* in 1/PercentUnit percent, a cost in thousand dollars, and a               *)
(* cost-effectiveness the fraction [num, den] of 1/PercentUnit percent per   *)
(* thousand dollars.                                                         *)

EffectScale == 2000

PercentUnit == (EffectScale * EffectScale) \div 100

\* lines 772-785
calculate_risk_score(risk) ==
    LET probability == convert_level_to_score(Get(risk, "probability", "Medium"))
        impact == convert_level_to_score(Get(risk, "impact", "Medium"))
    IN  probability * impact

\* line 372: the selectbox options
risk_options(rs) ==
    [i \in DOMAIN rs |->
        Get(rs[i], "description", IF i = 1 THEN "Risk 1" ELSE "Risk 2")]

\* line 380: the first risk with the description selected, or NoRisk
find_selected_risk(rs, desc) ==
    LET matching == {i \in DOMAIN rs : Get(rs[i], "description", "") = desc}
    IN  IF matching = {} THEN NoRisk
        ELSE [found |-> TRUE,
              risk |-> rs[CHOOSE i \in matching : \A j \in matching : i <= j]]

\* lines 472-473: 1 - (reduction / 100) * (0.8 + 0.4 * r), in 1/EffectScale,
\* for a slider at reduction percent and the draw r in hundredths
remaining_after(reduction, r) ==
    EffectScale - (reduction \div 5) * (80 + (2 * r) \div 5)

\* lines 476-478
new_score(risk, remaining_prob, remaining_impact) ==
    LET new_prob == convert_level_to_score(Get(risk, "probability", "Medium"))
                    * remaining_prob
        new_impact == convert_level_to_score(Get(risk, "impact", "Medium"))
                      * remaining_impact
    IN  [num |-> new_prob * new_impact, den |-> EffectScale * EffectScale]

\* line 481: (initial_score - new_score) / initial_score * 100, in
\* 1/PercentUnit percent
reduction_percent(initial, new) ==
    (initial * new.den - new.num) \div initial

\* line 484: reduction / (cost / 1000) if cost > 0 else 0
cost_effectiveness_unguarded(reduction, cost) ==
    [num |-> reduction, den |-> cost]

cost_effectiveness(reduction, cost) ==
    IF cost > 0 THEN [num |-> reduction, den |-> cost]
    ELSE [num |-> 0, den |-> 1]

\* the sort key of a is at least, or more than, the sort key of b
key_at_least(a, b) ==
    a.cost_effectiveness.num * b.cost_effectiveness.den
       >= b.cost_effectiveness.num * a.cost_effectiveness.den

key_above(a, b) ==
    a.cost_effectiveness.num * b.cost_effectiveness.den
       > b.cost_effectiveness.num * a.cost_effectiveness.den

\* line 496: list.sort(key=..., reverse=True) is stable: the results in
\* descending order of the key, results of equal key in their order of entry.
\* insert_descending puts a later result x into the sorted earlier ones.
RECURSIVE insert_ascending(_, _)
insert_ascending(sorted, x) ==
    IF sorted = <<>> THEN <<x>>
    ELSE IF key_at_least(x, Head(sorted))
         THEN <<Head(sorted)>> \o insert_ascending(Tail(sorted), x)
         ELSE <<x>> \o sorted

RECURSIVE insert_before_equals(_, _)
insert_before_equals(sorted, x) ==
    IF sorted = <<>> THEN <<x>>
    ELSE IF key_above(Head(sorted), x)
         THEN <<Head(sorted)>> \o insert_before_equals(Tail(sorted), x)
         ELSE <<x>> \o sorted

RECURSIVE insert_descending(_, _)
insert_descending(sorted, x) ==
    IF sorted = <<>> THEN <<x>>
    ELSE IF key_at_least(Head(sorted), x)
         THEN <<Head(sorted)>> \o insert_descending(Tail(sorted), x)
         ELSE <<x>> \o sorted

RECURSIVE sort_ascending(_)
sort_ascending(results) ==
    IF results = <<>> THEN <<>>
    ELSE insert_ascending(sort_ascending(SubSeq(results, 1, Len(results) - 1)),
                          results[Len(results)])

RECURSIVE sort_equals_reversed(_)
sort_equals_reversed(results) ==
    IF results = <<>> THEN <<>>
    ELSE insert_before_equals(
            sort_equals_reversed(SubSeq(results, 1, Len(results) - 1)),
            results[Len(results)])

RECURSIVE sort_by_cost_effectiveness(_)
sort_by_cost_effectiveness(results) ==
    IF results = <<>> THEN <<>>
    ELSE insert_descending(
            sort_by_cost_effectiveness(SubSeq(results, 1, Len(results) - 1)),
            results[Len(results)])

-----------------------------------------------------------------------------
(* Resource scenarios: src/modules/simulation/what_if_analysis.py,         *)
(* show_resource_scenarios with the scenario "Redistribute Workload" and   *)
(* the strategy "Optimize for Schedule".  A resource's 'allocated' and     *)
(* 'availability' are integer hours (the forms of resource_allocation.py   *)
(* take whole numbers from 0); inside the scenario 'allocated' is in       *)
(* 1/Scale hour, because max_overallocation / 100 is a number of percent.  *)

Dana == [name |-> "Dana", role |-> "Developer", allocated |-> 50, availability |-> 100]
Eli == [name |-> "Eli", role |-> "Tester", allocated |-> 30, availability |-> 50]
Farah == [name |-> "Farah", role |-> "Developer", allocated |-> 120, availability |-> 80]
Gus == [name |-> "Gus", role |-> "Designer", allocated |-> 20, availability |-> 80]
Hana == [name |-> "Hana", role |-> "Tester", allocated |-> 0, availability |-> 40]
Ivo == [name |-> "Ivo", role |-> "Developer", allocated |-> 40, availability |-> 0]

\* project_data['resources']
ResourceLists ==
    { <<>>,
      <<Hana>>,                   \* nothing allocated
      <<Ivo>>,                    \* nothing available
      <<Dana, Eli>>,              \* room to spare
      <<Gus, Farah>>,             \* exactly enough room, equal availability
      <<Farah, Gus, Dana>>,       \* enough room once over-allocation is allowed
      <<Farah, Farah>>,           \* more work than room
      <<Ivo, Gus>> }              \* a resource who is not available

\* the checkbox and the slider (line 541: from 100 to 150 in steps of 5; the
\* slider is disabled, and keeps its value, while the box is not ticked)
OverallocationSettings ==
    { [allow_overallocation |-> FALSE, max_overallocation |-> 120],
      [allow_overallocation |-> TRUE, max_overallocation |-> 120],
      [allow_overallocation |-> TRUE, max_overallocation |-> 150] }

\* sum(r.get(field, 0) for r in rs)
RECURSIVE sum_of(_, _)
sum_of(rs, field) ==
    IF rs = <<>> THEN 0 ELSE Head(rs)[field] + sum_of(Tail(rs), field)

\* line 665, in percent
max_allowed(allow, maximum) == IF allow THEN maximum ELSE Scale

\* line 670: sorted(..., key=availability, reverse=True), as the indices of the
\* resources; the sort is stable, equal keys keep their order
RECURSIVE insert_by_availability(_, _, _)
insert_by_availability(rs, order, i) ==
    IF order = <<>>
    THEN <<i>>
    ELSE IF rs[Head(order)].availability >= rs[i].availability
         THEN <<Head(order)>> \o insert_by_availability(rs, Tail(order), i)
         ELSE <<i>> \o order

RECURSIVE sorted_by_availability_first(_, _)
sorted_by_availability_first(rs, n) ==
    IF n = 0
    THEN <<>>
    ELSE insert_by_availability(rs, sorted_by_availability_first(rs, n - 1), n)

sorted_by_availability(rs) == sorted_by_availability_first(rs, Len(rs))

\* line 676
allocation_of(remaining, availability, allowed) ==
    IF remaining <= availability * allowed
    THEN remaining
    ELSE availability * allowed

\* lines 712-716 and the utilizations of lines 469, 721: a percentage as a
\* fraction, 0 when nothing is available
utilization(allocated, availability, unit) ==
    IF availability > 0
    THEN [num |-> allocated * 100, den |-> availability * unit]
    ELSE [num |-> 0, den |-> 1]

-----------------------------------------------------------------------------
(* Budget scenarios: show_budget_scenarios *)

(* Amounts are whole dollars: the budgets drawn are multiples of 500 and   *)
(* the sliders move in steps of 5 percent, so every product with a        *)
(* percentage is a whole number; the one quotient that need not be whole, *)
(* the share of an overrun left after the contingency (line 1228), is     *)
(* rounded down to the dollar.  A dict is a function from its keys.  A    *)
(* name that the handler binds first to a dict and later to a number      *)
(* holds [is_dict, value].                                                *)

NoBudget == [present |-> FALSE]
NoInputs == [scenario_type |-> "none"]
NoTotals == [computed |-> FALSE]
Unbound == [bound |-> FALSE]

a_dict(d) == [bound |-> TRUE, is_dict |-> TRUE, value |-> d]
a_number(n) == [bound |-> TRUE, is_dict |-> FALSE, value |-> n]

\* lines 970-985
sample_budget ==
    [present |-> TRUE,
     total |-> 100000,
     categories |-> ("Personnel" :> 65000 @@ "Equipment" :> 15000
                     @@ "Software" :> 10000 @@ "Travel" :> 5000
                     @@ "Contingency" :> 5000),
     spent |-> ("Personnel" :> 32500 @@ "Equipment" :> 12000
                @@ "Software" :> 8000 @@ "Travel" :> 2000
                @@ "Contingency" :> 0)]

TwoCategoryBudget ==
    [present |-> TRUE,
     total |-> 10000,
     categories |-> ("Personnel" :> 8000 @@ "Contingency" :> 2000),
     spent |-> ("Personnel" :> 4000 @@ "Contingency" :> 500)]

OneCategoryBudget ==
    [present |-> TRUE,
     total |-> 5000,
     categories |-> ("Personnel" :> 5000),
     spent |-> ("Personnel" :> 2000)]

\* project_data's 'budget', or NoBudget when project_data has none
ProjectBudgets == {NoBudget, TwoCategoryBudget, OneCategoryBudget}

\* lines 962-991: a project without a budget is given the sample budget
budget_of(project_budget) ==
    IF project_budget.present THEN project_budget ELSE sample_budget

\* sum(d.values())
RECURSIVE sum_values(_)
sum_values(d) ==
    IF DOMAIN d = {}
    THEN 0
    ELSE LET k == CHOOSE x \in DOMAIN d : TRUE
         IN  d[k] + sum_values([x \in DOMAIN d \ {k} |-> d[x]])

\* line 1109: a category's share of the budget, in percent
percentage(categories, category) ==
    IF sum_values(categories) > 0
    THEN (categories[category] * 100) \div sum_values(categories)
    ELSE 0

\* lines 1105-1119: the sliders of the reallocation start at the shares; the
\* user leaves them, or moves one down by a step, or moves one to zero
ReallocationData(categories) ==
    LET shares == [c \in DOMAIN categories |-> percentage(categories, c)]
    IN  {shares}
        \cup {[shares EXCEPT ![c] = @ - 1] : c \in {x \in DOMAIN categories : shares[x] >= 1}}
        \cup {[shares EXCEPT ![c] = 0] : c \in DOMAIN categories}

\* lines 1079-1141: the widgets of the three scenario types
BudgetInputs(categories) ==
    {[scenario_type |-> "Budget Increase/Decrease",
      budget_change |-> change,
      apply_to |-> "All Categories Proportionally"] : change \in {-30, 0, 10}}
    \cup
    {[scenario_type |-> "Budget Increase/Decrease",
      budget_change |-> change,
      apply_to |-> "Specific Category",
      selected_category |-> c] : change \in {-30, 10}, c \in DOMAIN categories}
    \cup
    {[scenario_type |-> "Category Reallocation",
      reallocation_data |-> data] : data \in ReallocationData(categories)}
    \cup
    {[scenario_type |-> "Cost Overrun Simulation",
      overrun_categories |-> chosen,
      overrun_percentage |-> percent,
      contingency_usage |-> usage] :
         chosen \in SUBSET DOMAIN categories, percent \in {20, 50},
         usage \in BOOLEAN}

\* lines 1122-1124, 1184: abs(total_percentage - 100) > 1
allocation_off(reallocation_data) ==
    \/ sum_values(reallocation_data) - 100 > 1
    \/ 100 - sum_values(reallocation_data) > 1

\* lines 1156, 1169: amount * (1 + budget_change / 100)
changed(amount, budget_change) == (amount * (100 + budget_change)) \div 100

\* lines 1153-1181
budget_increase_decrease(b, inputs) ==
    IF inputs.apply_to = "All Categories Proportionally"
    THEN [total |-> changed(b.total, inputs.budget_change),
          categories |-> [c \in DOMAIN b.categories |->
                             changed(b.categories[c], inputs.budget_change)],
          spent |-> b.spent,
          name |-> <<"Budget",
                     IF inputs.budget_change > 0 THEN "Increase" ELSE "Decrease">>]
    ELSE LET original_amount == b.categories[inputs.selected_category]
             new_amount == changed(original_amount, inputs.budget_change)
         IN  [total |-> b.total + (new_amount - original_amount),
              categories |-> [b.categories EXCEPT
                                 ![inputs.selected_category] = new_amount],
              spent |-> b.spent,
              name |-> <<inputs.selected_category, "Budget",
                         IF inputs.budget_change > 0 THEN "Increase" ELSE "Decrease">>]

\* lines 1188-1192: the total stays, the categories take their new shares
category_reallocation(b, inputs) ==
    [total |-> b.total,
     categories |-> [c \in DOMAIN b.categories |->
                        (b.total * inputs.reallocation_data[c]) \div 100],
     spent |-> b.spent,
     name |-> <<"Budget Reallocation">>]

\* lines 1203-1210: the overrun of each chosen category
overrun_amounts(b, inputs) ==
    [c \in inputs.overrun_categories |->
        ((Get(b.categories, c, 0) - Get(b.spent, c, 0))
            * inputs.overrun_percentage) \div 100]

\* lines 1213-1222: how much of the contingency is used
contingency_used(b, inputs) ==
    IF inputs.contingency_usage /\ "Contingency" \in DOMAIN b.categories
    THEN LET available_contingency ==
                b.categories["Contingency"] - Get(b.spent, "Contingency", 0)
             total_overrun == sum_values(overrun_amounts(b, inputs))
         IN  IF available_contingency > 0
             THEN IF available_contingency <= total_overrun
                  THEN available_contingency
                  ELSE total_overrun
             ELSE 0
    ELSE 0

\* lines 1194-1234
cost_overrun(b, inputs) ==
    LET amounts == overrun_amounts(b, inputs)
        used == contingency_used(b, inputs)
        total_overrun == sum_values(amounts) - used
        with_contingency ==
           IF inputs.contingency_usage /\ "Contingency" \in DOMAIN b.categories
              /\ b.categories["Contingency"] - Get(b.spent, "Contingency", 0) > 0
           THEN DictSet(b.spent, "Contingency",
                        Get(b.spent, "Contingency", 0) + used)
           ELSE b.spent
        applied_overrun(c) ==
           IF total_overrun > 0
           THEN (amounts[c] * (sum_values(amounts) - used))
                   \div sum_values(amounts)
           ELSE 0
    IN  [total |-> b.total,
         categories |-> b.categories,
         spent |-> [c \in DOMAIN with_contingency \cup DOMAIN amounts |->
                       Get(with_contingency, c, 0)
                       + IF c \in DOMAIN amounts THEN applied_overrun(c) ELSE 0],
         name |-> <<"Cost Overrun", inputs.overrun_percentage,
                    Cardinality(inputs.overrun_categories)>>]

\* lines 1183-1186, 1195-1197: the input checks; "none" when they pass
input_error(inputs) ==
    IF inputs.scenario_type = "Category Reallocation"
       /\ allocation_off(inputs.reallocation_data)
    THEN "Total allocation must equal 100%. Please adjust and try again."
    ELSE IF inputs.scenario_type = "Cost Overrun Simulation"
            /\ inputs.overrun_categories = {}
    THEN "Please select at least one category for cost overrun simulation."
    ELSE "none"

\* lines 1152-1234: the scenario's total, categories, spent and name
apply_scenario(b, inputs) ==
    IF inputs.scenario_type = "Budget Increase/Decrease"
    THEN budget_increase_decrease(b, inputs)
    ELSE IF inputs.scenario_type = "Category Reallocation"
    THEN category_reallocation(b, inputs)
    ELSE cost_overrun(b, inputs)

\* lines 1302-1305: what the chart loop rebinds scenario_spent to; calling
\* .get on a number raises AttributeError
rebound_spent(spent_name, category) ==
    IF spent_name.is_dict
    THEN [raised |-> "none", name |-> a_number(Get(spent_name.value, category, 0))]
    ELSE [raised |-> "AttributeError", name |-> spent_name]

-----------------------------------------------------------------------------
(* Initial state: nothing has been called *)

Init ==
    /\ pc = "idle"
    /\ now = 0
    /\ caller = "none"
    /\ wbs = <<>>
    /\ critical_path_focus = FALSE
    /\ confidence_levels = {}
    /\ tasks = <<>>
    /\ uncertainty = 0
    /\ num_iterations = 0
    /\ baseline_start = 0
    /\ simulated_durations = <<>>
    /\ simulation_durations = <<>>
    /\ simulation_completion_dates = <<>>
    /\ raised = "none"
    /\ simulation_results = NoResult
    /\ warning = "none"
    /\ confidence_results = <<>>
    /\ risks = <<>>
    /\ objectives = <<>>
    /\ impact_matrix = <<>>
    /\ risk_scores = <<>>
    /\ base_scores = <<>>
    /\ impact_results = NoImpactResult
    /\ impact_level_call = NoImpactLevelCall
    /\ project_risks = <<>>
    /\ selected_risk_desc = ""
    /\ selected_risk = NoRisk
    /\ strategies = <<>>
    /\ implementation_costs = <<>>
    /\ probability_reduction = 0
    /\ impact_reduction = 0
    /\ initial_score = 0
    /\ mitigation_results = <<>>
    /\ best_strategy = NoStrategy
    /\ notice = "none"
    /\ resources = <<>>
    /\ allow_overallocation = FALSE
    /\ max_overallocation = 120
    /\ scenario_resources = <<>>
    /\ remaining_allocation = 0
    /\ sorted_resources = <<>>
    /\ resource_scenarios = <<>>
    /\ resource_notice = "none"
    /\ budget = NoBudget
    /\ budget_inputs = NoInputs
    /\ scenario_budget = Unbound
    /\ scenario_categories = <<>>
    /\ scenario_spent = Unbound
    /\ scenario_totals = NoTotals
    /\ chart_categories = {}
    /\ chart_data = <<>>
    /\ budget_scenarios = <<>>
    /\ budget_notice = "none"

\* datetime.datetime.now(): the clock never runs backwards, so a reading is
\* the latest reading or a later day
clock_readings == {now + k * Scale : k \in 0..MaxClock} \cap 0..(MaxClock * Scale)

\* lines 576-599: entry of run_monte_carlo_simulation with its three arguments
enter_simulation_keeps_lists(ts, u, n) ==
    /\ tasks' = ts
    /\ uncertainty' = u
    /\ num_iterations' = n
    /\ \E reading \in clock_readings :
          /\ now' = reading
          /\ baseline_start' = reading
    /\ simulated_durations' = <<>>
    /\ UNCHANGED <<simulation_durations, simulation_completion_dates>>
    /\ simulation_results' = NoResult
    /\ raised' = "none"
    /\ pc' = "mc_loop"

enter_simulation(ts, u, n) ==
    /\ tasks' = ts
    /\ uncertainty' = u
    /\ num_iterations' = n
    /\ \E reading \in clock_readings :
          /\ now' = reading
          /\ baseline_start' = reading
    /\ simulated_durations' = <<>>
    /\ simulation_durations' = <<>>
    /\ simulation_completion_dates' = <<>>
    /\ simulation_results' = NoResult
    /\ raised' = "none"
    /\ pc' = "mc_loop"

\* line 601: for _ in range(num_iterations)
loop_stops_one_early == Len(simulation_durations) < num_iterations - 1

loop_continues == Len(simulation_durations) < num_iterations

\* A direct call of run_monte_carlo_simulation(tasks, uncertainty,
\* num_iterations): a first call with any arguments, or the call that has just
\* ended made once more with its arguments
run_monte_carlo_simulation ==
    /\ pc \in {"idle", "mc_done"}
    /\ \E c \in (IF pc = "idle"
                 THEN ApiCalls
                 ELSE {[tasks |-> tasks, uncertainty |-> uncertainty,
                        num_iterations |-> num_iterations]}) :
          enter_simulation(c.tasks, c.uncertainty, c.num_iterations)
    /\ caller' = "api"
    /\ UNCHANGED <<wbs, critical_path_focus, confidence_levels, warning,
                   confidence_results>>
    /\ UNCHANGED <<ria_vars, gil_vars, mit_vars, wia_vars>>

\* lines 601-622: one iteration of the loop
run_monte_carlo_simulation_iteration ==
    /\ pc = "mc_loop"
    /\ loop_continues
    /\ \E samples \in simulated_durations_outcomes(baseline_durations(tasks),
                                                    uncertainty) :
          IF first_exception(samples) # "none"
          THEN /\ raised' = first_exception(samples)
               /\ pc' = IF caller = "view" THEN "view_done" ELSE "mc_done"
               /\ simulated_durations' = <<>>
               /\ simulation_durations' = <<>>
               /\ simulation_completion_dates' = <<>>
          ELSE LET drawn == [i \in DOMAIN samples |-> samples[i].val]
               IN  /\ simulated_durations' = drawn
                   /\ simulation_durations' =
                         Append(simulation_durations, total_duration(drawn))
                   /\ simulation_completion_dates' =
                         Append(simulation_completion_dates,
                                completion_date(baseline_start, total_duration(drawn)))
                   /\ UNCHANGED <<pc, raised>>
    /\ UNCHANGED <<now, caller, wbs, critical_path_focus,
                   confidence_levels, tasks, uncertainty, num_iterations,
                   baseline_start, simulation_results, warning,
                   confidence_results>>
    /\ UNCHANGED <<ria_vars, gil_vars, mit_vars, wia_vars>>

\* lines 624-627: the loop is over, the two lists are returned (the result
\* holds the list objects themselves)
run_monte_carlo_simulation_return ==
    /\ pc = "mc_loop"
    /\ ~loop_continues
    /\ simulation_results' = [durations |-> simulation_durations,
                              completion_dates |-> simulation_completion_dates,
                              returned |-> TRUE]
    /\ simulated_durations' = <<>>
    /\ pc' = IF caller = "view" THEN "view_results" ELSE "mc_done"
    /\ UNCHANGED <<now, caller, wbs, critical_path_focus,
                   confidence_levels, tasks, uncertainty, num_iterations,
                   baseline_start, simulation_durations,
                   simulation_completion_dates, raised, warning,
                   confidence_results>>
    /\ UNCHANGED <<ria_vars, gil_vars, mit_vars, wia_vars>>

\* lines 36-83: the button "Run Monte Carlo Simulation"
show_monte_carlo_simulation ==
    /\ pc = "idle"
    /\ \E w \in TaskLists, focus \in BOOLEAN, runs \in SliderRuns, level \in SliderUncertainties :
          LET simulation_tasks == IF focus THEN SelectCritical(w) ELSE w
          IN  /\ wbs' = w
              /\ critical_path_focus' = focus
              /\ IF w = <<>>
                 THEN /\ warning' = "No tasks found in the project"
                      /\ pc' = "view_done"
                      /\ UNCHANGED <<now, tasks, uncertainty, num_iterations,
                                     baseline_start, simulated_durations,
                                     simulation_durations,
                                     simulation_completion_dates,
                                     simulation_results, raised>>
                 ELSE IF simulation_tasks = <<>>
                 THEN /\ warning' = "No critical path tasks found"
                      /\ pc' = "view_done"
                      /\ UNCHANGED <<now, tasks, uncertainty, num_iterations,
                                     baseline_start, simulated_durations,
                                     simulation_durations,
                                     simulation_completion_dates,
                                     simulation_results, raised>>
                 ELSE /\ warning' = "none"
                      /\ enter_simulation(simulation_tasks, level, runs)
    /\ caller' = "view"
    /\ UNCHANGED <<confidence_levels, confidence_results>>
    /\ UNCHANGED <<ria_vars, gil_vars, mit_vars, wia_vars>>

\* lines 47-51, 85-118: the view builds the confidence table of the levels
\* selected in the multiselect (any subset of the four)
show_monte_carlo_simulation_results ==
    /\ pc = "view_results"
    /\ \E selected \in SUBSET ConfidenceLabels :
          /\ confidence_levels' = selected
          /\ confidence_results' = confidence_table(simulation_results, selected)
    /\ pc' = "view_done"
    /\ UNCHANGED <<now, caller, wbs, critical_path_focus, tasks, uncertainty, num_iterations,
                   baseline_start, simulated_durations, simulation_durations,
                   simulation_completion_dates, raised, simulation_results,
                   warning>>
    /\ UNCHANGED <<ria_vars, gil_vars, mit_vars, wia_vars>>

\* lines 640-642: a call of analyze_risk_impacts(risks, objectives): a first
\* call with any arguments, or the call that has just ended made once more
\* with its arguments
analyze_risk_impacts ==
    /\ pc \in {"idle", "ria_done"}
    /\ \E rs \in (IF pc = "idle" THEN RiskLists ELSE {risks}),
          objs \in (IF pc = "idle" THEN ObjectiveLists ELSE {objectives}) :
          /\ risks' = rs
          /\ objectives' = objs
    /\ impact_matrix' = <<>>
    /\ risk_scores' = <<>>
    /\ base_scores' = <<>>
    /\ impact_results' = NoImpactResult
    /\ raised' = "none"
    /\ pc' = "ria_loop"
    /\ UNCHANGED <<now, mc_vars, wia_vars, gil_vars, mit_vars>>

\* lines 644-677: the loop body for the next risk
analyze_risk_impacts_risk_keyed_by_description ==
    /\ pc = "ria_loop"
    /\ Len(base_scores) < Len(risks)
    /\ LET risk == risks[Len(base_scores) + 1]
           risk_name == Get(risk, "description", "Unknown Risk")
           severity == Lower(Get(risk, "severity", "Medium"))
           probability == Lower(Get(risk, "probability", "Medium"))
           severity_score == convert_level_to_score(severity)
           probability_score == convert_level_to_score(probability)
           base_score == severity_score * probability_score
           same == {i \in DOMAIN impact_matrix : impact_matrix[i]["Risk"] = risk_name}
       IN  /\ base_scores' = Append(base_scores,
                                    [severity_score |-> severity_score,
                                     probability_score |-> probability_score,
                                     base_score |-> base_score])
           /\ \E done \in objective_loop(risk, base_score, objectives,
                                          [Risk |-> risk_name], <<>>) :
                 LET entry == [risk |-> risk_name, objectives |-> objectives,
                               scores |-> done.scores]
                 IN  IF same = {}
                     THEN /\ impact_matrix' = Append(impact_matrix, done.row)
                          /\ risk_scores' = Append(risk_scores, entry)
                     ELSE /\ impact_matrix' =
                                [i \in DOMAIN impact_matrix |->
                                    IF i \in same THEN done.row ELSE impact_matrix[i]]
                          /\ risk_scores' =
                                [i \in DOMAIN risk_scores |->
                                    IF i \in same THEN entry ELSE risk_scores[i]]
    /\ UNCHANGED <<pc, now, raised, mc_vars, wia_vars, risks, objectives, impact_results,
                   gil_vars, mit_vars>>

analyze_risk_impacts_risk ==
    /\ pc = "ria_loop"
    /\ Len(impact_matrix) < Len(risks)
    /\ LET risk == risks[Len(impact_matrix) + 1]
           risk_name == Get(risk, "description", "Unknown Risk")
           severity == Lower(Get(risk, "severity", "Medium"))
           probability == Lower(Get(risk, "probability", "Medium"))
           severity_score == convert_level_to_score(severity)
           probability_score == convert_level_to_score(probability)
           base_score == severity_score * probability_score
       IN  /\ base_scores' = Append(base_scores,
                                    [severity_score |-> severity_score,
                                     probability_score |-> probability_score,
                                     base_score |-> base_score])
           /\ \E done \in objective_loop(risk, base_score, objectives,
                                          [Risk |-> risk_name], <<>>) :
                 /\ impact_matrix' = Append(impact_matrix, done.row)
                 /\ risk_scores' = Append(risk_scores,
                                          [risk |-> risk_name,
                                           objectives |-> objectives,
                                           scores |-> done.scores])
    /\ UNCHANGED <<pc, now, raised, mc_vars, wia_vars, risks, objectives, impact_results,
                   gil_vars, mit_vars>>

\* lines 679-696: the combined impact of every objective, and the return (the
\* result holds the two list objects themselves)
analyze_risk_impacts_combine ==
    /\ pc = "ria_loop"
    /\ Len(impact_matrix) >= Len(risks)
    /\ LET impact_scores == [j \in DOMAIN objectives |->
                                combined_score(impact_matrix, objectives[j])]
       IN  IF \E j \in DOMAIN objectives : impact_scores[j].den = 0
           THEN /\ raised' = "ZeroDivisionError"
                /\ impact_results' = NoImpactResult
           ELSE /\ raised' = "none"
                /\ impact_results' =
                      [impact_matrix |-> impact_matrix,
                       risk_scores |-> risk_scores,
                       combined_impact |-> [objectives |-> objectives,
                                            impact_scores |-> impact_scores],
                       returned |-> TRUE]
    /\ pc' = "ria_done"
    /\ UNCHANGED <<now, mc_vars, wia_vars, risks, objectives, impact_matrix, risk_scores,
                   base_scores, gil_vars, mit_vars>>

\* lines 808-896: a direct call of generate_impact_level(risk_category,
\* objective, base_score), with its draw of random.random()
generate_impact_level_call ==
    /\ pc = "idle"
    /\ \E risk_category \in RiskCategories, objective \in ObjectiveLabels,
          base_score \in BaseScores, r \in random_outcomes :
          impact_level_call' =
             [risk_category |-> risk_category,
              objective |-> objective,
              base_score |-> base_score,
              random |-> r,
              impact_prob |-> impact_prob(risk_category, objective),
              impact_level |-> impact_level_of_draw(risk_category, objective,
                                                    base_score, r),
              returned |-> TRUE]
    /\ raised' = "none"
    /\ pc' = "gil_done"
    /\ UNCHANGED <<now, mc_vars, wia_vars, ria_vars, mit_vars>>

\* lines 365-468: the button "Simulate Mitigation Effectiveness", with the
\* widgets as the user left them
show_mitigation_strategies ==
    /\ pc = "idle"
    /\ \E rs \in ProjectRiskLists :
          /\ project_risks' = rs
          /\ IF rs = <<>>
             THEN /\ notice' = "No risks found in the project"
                  /\ pc' = "mit_done"
                  /\ UNCHANGED <<selected_risk_desc, selected_risk, strategies,
                                 implementation_costs, probability_reduction,
                                 impact_reduction, initial_score>>
             ELSE \E i \in DOMAIN rs :
                     LET desc == risk_options(rs)[i]
                         found == find_selected_risk(rs, desc)
                     IN  /\ selected_risk_desc' = desc
                         /\ selected_risk' = found
                         /\ IF ~found.found
                            THEN /\ notice' = "Selected risk not found."
                                 /\ pc' = "mit_done"
                                 /\ UNCHANGED <<strategies, implementation_costs,
                                                probability_reduction,
                                                impact_reduction, initial_score>>
                            ELSE /\ notice' = "none"
                                 /\ pc' = "mit_loop"
                                 /\ \E lines \in StrategyLists :
                                       /\ strategies' = lines
                                       /\ implementation_costs'
                                             \in [DOMAIN lines -> Costs]
                                 /\ \E sliders \in SliderReductions :
                                       /\ probability_reduction'
                                             = sliders.probability_reduction
                                       /\ impact_reduction'
                                             = sliders.impact_reduction
                                 /\ initial_score' = calculate_risk_score(found.risk)
    /\ mitigation_results' = <<>>
    /\ best_strategy' = NoStrategy
    /\ raised' = "none"
    /\ UNCHANGED <<now, mc_vars, wia_vars, ria_vars, gil_vars>>

\* lines 470-493: the loop body for the next strategy
show_mitigation_strategies_strategy ==
    /\ pc = "mit_loop"
    /\ Len(mitigation_results) < Len(strategies)
    /\ LET i == Len(mitigation_results) + 1
       IN  \E r1 \in effectiveness_draws, r2 \in effectiveness_draws :
              LET new == new_score(selected_risk.risk,
                                   remaining_after(probability_reduction, r1),
                                   remaining_after(impact_reduction, r2))
                  reduction == reduction_percent(initial_score, new)
              IN  mitigation_results' =
                     Append(mitigation_results,
                            [strategy |-> strategies[i],
                             initial_score |-> initial_score,
                             new_score |-> new,
                             reduction_percent |-> reduction,
                             cost |-> implementation_costs[i],
                             cost_effectiveness |->
                                cost_effectiveness(reduction,
                                                   implementation_costs[i])])
    /\ UNCHANGED <<pc, now, raised, mc_vars, wia_vars, ria_vars, gil_vars, project_risks,
                   selected_risk_desc, selected_risk, strategies,
                   implementation_costs, probability_reduction, impact_reduction,
                   initial_score, best_strategy, notice>>

\* lines 495-574: the results are sorted and shown, the first one recommended;
\* with no result, the table's six column names do not fit the empty frame
\* (line 503) and the view stops with ValueError
show_mitigation_strategies_rank ==
    /\ pc = "mit_loop"
    /\ Len(mitigation_results) >= Len(strategies)
    /\ LET ranked == sort_by_cost_effectiveness(mitigation_results)
       IN  /\ mitigation_results' = ranked
           /\ IF ranked = <<>>
              THEN /\ raised' = "ValueError"
                   /\ best_strategy' = NoStrategy
              ELSE /\ raised' = "none"
                   /\ best_strategy' = [recommended |-> TRUE,
                                        result |-> ranked[1]]
    /\ pc' = "mit_done"
    /\ UNCHANGED <<now, mc_vars, wia_vars, ria_vars, gil_vars, project_risks,
                   selected_risk_desc, selected_risk, strategies,
                   implementation_costs, probability_reduction, impact_reduction,
                   initial_score, notice>>

\* what_if_analysis.py, lines 446-449, 553-556, 650-667: the button "Run
\* Resource Scenario Analysis" with "Redistribute Workload" and "Optimize for
\* Schedule" selected
show_resource_scenarios ==
    /\ pc = "idle"
    /\ \E rs \in ResourceLists, setting \in OverallocationSettings :
          LET total_allocation == sum_of(rs, "allocated")
              total_availability == sum_of(rs, "availability")
              copy == [i \in DOMAIN rs |->
                         [rs[i] EXCEPT !.allocated = rs[i].allocated * Scale]]
          IN  /\ resources' = rs
              /\ allow_overallocation' = setting.allow_overallocation
              /\ max_overallocation' = setting.max_overallocation
              /\ IF rs = <<>>
                 THEN /\ resource_notice' = "No resources found in the project"
                      /\ pc' = "res_done"
                      /\ scenario_resources' = <<>>
                      /\ remaining_allocation' = 0
                      /\ sorted_resources' = <<>>
                 ELSE IF total_allocation = 0 \/ total_availability = 0
                 THEN /\ resource_notice' = "Cannot redistribute with zero allocation or availability."
                      /\ pc' = "res_done"
                      /\ scenario_resources' = copy
                      /\ remaining_allocation' = 0
                      /\ sorted_resources' = <<>>
                 ELSE /\ resource_notice' = "none"
                      /\ pc' = "res_loop"
                      /\ scenario_resources' = copy
                      /\ remaining_allocation' = total_allocation * Scale
                      /\ sorted_resources' = sorted_by_availability(copy)
    /\ raised' = "none"
    /\ UNCHANGED <<now, mc_vars, ria_vars, gil_vars, mit_vars, resource_scenarios,
                   bud_vars>>

\* lines 670-681: the loop body for the next resource, by falling availability
show_resource_scenarios_resource ==
    /\ pc = "res_loop"
    /\ sorted_resources # <<>>
    /\ LET i == Head(sorted_resources)
           availability == scenario_resources[i].availability
           allocation == allocation_of(remaining_allocation, availability,
                                       max_allowed(allow_overallocation,
                                                   max_overallocation))
           remaining == IF availability > 0
                        THEN remaining_allocation - allocation
                        ELSE remaining_allocation
       IN  /\ scenario_resources' =
                 IF availability > 0
                 THEN [scenario_resources EXCEPT ![i].allocated = allocation]
                 ELSE scenario_resources
           /\ remaining_allocation' = remaining
           /\ sorted_resources' = IF remaining <= 0
                                  THEN <<>>
                                  ELSE Tail(sorted_resources)
    /\ UNCHANGED <<pc, now, raised, mc_vars, ria_vars, gil_vars, mit_vars,
                   resources, allow_overallocation, max_overallocation,
                   resource_scenarios, resource_notice, bud_vars>>

\* lines 711-921: the utilizations are worked out and the scenario is saved
\* under the second the clock shows
show_resource_scenarios_save ==
    /\ pc = "res_loop"
    /\ sorted_resources = <<>>
    /\ \E reading \in clock_readings :
          LET total_allocated == sum_of(resources, "allocated")
              total_available == sum_of(resources, "availability")
              scenario_total_allocated == sum_of(scenario_resources, "allocated")
              scenario_total_available == sum_of(scenario_resources, "availability")
              with_utilization ==
                 [i \in DOMAIN scenario_resources |->
                     DictSet(scenario_resources[i], "utilization",
                             utilization(scenario_resources[i].allocated,
                                         scenario_resources[i].availability,
                                         Scale))]
          IN  /\ now' = reading
              /\ scenario_resources' = with_utilization
              /\ resource_scenarios' =
                    DictSet(resource_scenarios, reading,
                       [name |-> "Schedule Optimized",
                        type |-> "Redistribute Workload",
                        original_allocation |-> total_allocated,
                        original_availability |-> total_available,
                        original_utilization |->
                           utilization(total_allocated, total_available, 1),
                        scenario_allocation |-> scenario_total_allocated,
                        scenario_availability |-> scenario_total_available,
                        scenario_utilization |->
                           utilization(scenario_total_allocated,
                                       scenario_total_available, Scale),
                        resources |-> with_utilization])
    /\ pc' = "res_done"
    /\ UNCHANGED <<raised, mc_vars, ria_vars, gil_vars, mit_vars, resources,
                   allow_overallocation, max_overallocation,
                   remaining_allocation, sorted_resources, resource_notice,
                   bud_vars>>

\* lines 962-991, 1144-1240: the button "Run Budget Scenario Analysis" with the
\* widgets as the user left them, up to the scenario's totals
show_budget_scenarios ==
    /\ pc = "idle"
    /\ \E project_budget \in ProjectBudgets :
          LET b == budget_of(project_budget)
          IN  \E inputs \in BudgetInputs(b.categories) :
                 /\ budget' = b
                 /\ budget_inputs' = inputs
                 /\ budget_notice' = input_error(inputs)
                 /\ IF input_error(inputs) # "none"
                    THEN /\ pc' = "bud_done"
                         /\ scenario_budget' = a_dict([total |-> b.total])
                         /\ scenario_categories' = b.categories
                         /\ scenario_spent' = a_dict(b.spent)
                         /\ scenario_totals' = NoTotals
                         /\ chart_categories' = {}
                    ELSE LET scenario == apply_scenario(b, inputs)
                             scenario_total_spent == sum_values(scenario.spent)
                         IN  /\ pc' = "bud_chart"
                             /\ scenario_budget' = a_dict([total |-> scenario.total])
                             /\ scenario_categories' = scenario.categories
                             /\ scenario_spent' = a_dict(scenario.spent)
                             /\ scenario_totals' =
                                   [computed |-> TRUE,
                                    name |-> scenario.name,
                                    scenario_total_budget |-> scenario.total,
                                    scenario_total_spent |-> scenario_total_spent,
                                    scenario_total_remaining |->
                                       scenario.total - scenario_total_spent]
                             /\ chart_categories' =
                                   DOMAIN b.categories \cup DOMAIN scenario.categories
    /\ chart_data' = <<>>
    /\ raised' = "none"
    /\ UNCHANGED <<now, mc_vars, ria_vars, gil_vars, mit_vars, res_vars,
                   budget_scenarios>>

\* lines 1299-1313: the loop body of the comparison chart for the next
\* category; the loop runs over a set, in any order
show_budget_scenarios_chart_category ==
    /\ pc = "bud_chart"
    /\ chart_categories # {}
    /\ \E category \in chart_categories :
          LET original_budget == Get(budget.categories, category, 0)
              original_spent == Get(budget.spent, category, 0)
              budget_here == Get(scenario_categories, category, 0)
              rebound == rebound_spent(scenario_spent, category)
          IN  /\ scenario_budget' = a_number(budget_here)
              /\ scenario_spent' = rebound.name
              /\ raised' = rebound.raised
              /\ IF rebound.raised # "none"
                 THEN /\ pc' = "bud_done"
                      /\ UNCHANGED <<chart_categories, chart_data>>
                 ELSE /\ pc' = pc
                      /\ chart_categories' = chart_categories \ {category}
                      /\ chart_data' =
                            Append(chart_data,
                               [Category |-> category,
                                OriginalBudget |-> original_budget,
                                OriginalSpent |-> original_spent,
                                ScenarioBudget |-> budget_here,
                                ScenarioSpent |-> rebound.name.value,
                                BudgetChange |-> budget_here - original_budget,
                                SpentChange |->
                                   rebound.name.value - original_spent])
    /\ UNCHANGED <<now, mc_vars, ria_vars, gil_vars, mit_vars, res_vars, budget,
                   budget_inputs, scenario_categories, scenario_totals,
                   budget_scenarios, budget_notice>>

\* lines 1315-1513: the charts are drawn and the scenario is saved under the
\* second the clock shows
show_budget_scenarios_save ==
    /\ pc = "bud_chart"
    /\ chart_categories = {}
    /\ \E reading \in clock_readings :
          /\ now' = reading
          /\ budget_scenarios' =
                DictSet(budget_scenarios, reading,
                   [name |-> scenario_totals.name,
                    type |-> budget_inputs.scenario_type,
                    original_budget |-> budget.total,
                    original_spent |-> sum_values(budget.spent),
                    original_remaining |-> budget.total - sum_values(budget.spent),
                    scenario_budget |-> scenario_totals.scenario_total_budget,
                    scenario_spent |-> scenario_totals.scenario_total_spent,
                    scenario_remaining |-> scenario_totals.scenario_total_remaining,
                    categories |-> scenario_categories,
                    spent |-> scenario_spent])
    /\ pc' = "bud_done"
    /\ UNCHANGED <<raised, mc_vars, ria_vars, gil_vars, mit_vars, res_vars, budget,
                   budget_inputs, scenario_budget, scenario_categories,
                   scenario_spent, scenario_totals, chart_categories, chart_data,
                   budget_notice>>

\* The call is over; the next script run starts afresh
Rerun ==
    /\ pc \in {"mc_done", "view_done", "ria_done", "gil_done", "mit_done",
              "res_done", "bud_done"}
    /\ pc' = "idle"
    /\ caller' = "none"
    /\ wbs' = <<>>
    /\ critical_path_focus' = FALSE
    /\ confidence_levels' = {}
    /\ tasks' = <<>>
    /\ uncertainty' = 0
    /\ num_iterations' = 0
    /\ baseline_start' = 0
    /\ simulated_durations' = <<>>
    /\ simulation_durations' = <<>>
    /\ simulation_completion_dates' = <<>>
    /\ raised' = "none"
    /\ simulation_results' = NoResult
    /\ warning' = "none"
    /\ confidence_results' = <<>>
    /\ risks' = <<>>
    /\ objectives' = <<>>
    /\ impact_matrix' = <<>>
    /\ risk_scores' = <<>>
    /\ base_scores' = <<>>
    /\ impact_results' = NoImpactResult
    /\ impact_level_call' = NoImpactLevelCall
    /\ project_risks' = <<>>
    /\ selected_risk_desc' = ""
    /\ selected_risk' = NoRisk
    /\ strategies' = <<>>
    /\ implementation_costs' = <<>>
    /\ probability_reduction' = 0
    /\ impact_reduction' = 0
    /\ initial_score' = 0
    /\ mitigation_results' = <<>>
    /\ best_strategy' = NoStrategy
    /\ notice' = "none"
    /\ resources' = <<>>
    /\ allow_overallocation' = FALSE
    /\ max_overallocation' = 120
    /\ scenario_resources' = <<>>
    /\ remaining_allocation' = 0
    /\ sorted_resources' = <<>>
    /\ resource_scenarios' = <<>>
    /\ resource_notice' = "none"
    /\ budget' = NoBudget
    /\ budget_inputs' = NoInputs
    /\ scenario_budget' = Unbound
    /\ scenario_categories' = <<>>
    /\ scenario_spent' = Unbound
    /\ scenario_totals' = NoTotals
    /\ chart_categories' = {}
    /\ chart_data' = <<>>
    /\ budget_scenarios' = <<>>
    /\ budget_notice' = "none"
    /\ UNCHANGED now

Next ==
    \/ run_monte_carlo_simulation
    \/ run_monte_carlo_simulation_iteration
    \/ run_monte_carlo_simulation_return
    \/ show_monte_carlo_simulation
    \/ show_monte_carlo_simulation_results
    \/ analyze_risk_impacts
    \/ analyze_risk_impacts_risk
    \/ analyze_risk_impacts_combine
    \/ generate_impact_level_call
    \/ show_mitigation_strategies
    \/ show_mitigation_strategies_strategy
    \/ show_mitigation_strategies_rank
    \/ show_resource_scenarios
    \/ show_resource_scenarios_resource
    \/ show_resource_scenarios_save
    \/ show_budget_scenarios
    \/ show_budget_scenarios_chart_category
    \/ show_budget_scenarios_save
    \/ Rerun

Spec == Init /\ [][Next]_vars

-----------------------------------------------------------------------------
(* Properties of the schedule simulator *)

\* a call of run_monte_carlo_simulation is in progress or over
in_simulation == pc \in {"mc_loop", "mc_done", "view_results", "view_done"}

\* the call of run_monte_carlo_simulation is over (it returned or it raised)
simulation_over == pc \in {"mc_done", "view_results", "view_done"} /\ caller # "none"
                   /\ warning = "none"

\* the sum of the tasks' 'duration' fields, a task without one counting as 0
RECURSIVE TaskDurationSum(_)
TaskDurationSum(ts) ==
    IF ts = <<>> THEN 0
    ELSE (IF "duration" \in DOMAIN Head(ts) THEN Head(ts).duration ELSE 0)
         + TaskDurationSum(Tail(ts))

\* C1: for a non-empty task list, an uncertainty in [0,1] and N >= 1 iterations
\* the call returns, and 'durations' and 'completion_dates' have N elements each
C1_TrialCount ==
    (simulation_over /\ tasks # <<>> /\ uncertainty \in 0..Scale
       /\ num_iterations >= 1)
    => /\ raised = "none"
       /\ simulation_results.returned
       /\ Len(simulation_results.durations) = num_iterations
       /\ Len(simulation_results.completion_dates) = num_iterations

C1_Witness ==
    /\ pc = "mc_done"
    /\ Len(tasks) = MaxTasks
    /\ uncertainty = 100
    /\ num_iterations = MaxIterations
    /\ Len(simulation_results.durations) = MaxIterations
    /\ Len(simulation_results.completion_dates) = MaxIterations

\* C2: with uncertainty 0 every trial's total is the sum of the tasks' durations
\* (a task without 'duration' counting as 0), in every trial made so far and in
\* the returned list, for any task list and any iteration count
C2_ZeroUncertaintyExact ==
    uncertainty = 0 =>
       /\ \A i \in DOMAIN simulation_durations :
             simulation_durations[i] = Scale * TaskDurationSum(tasks)
       /\ \A i \in DOMAIN simulation_results.durations :
             simulation_results.durations[i] = Scale * TaskDurationSum(tasks)

C2_Witness ==
    /\ pc = "mc_done"
    /\ tasks = ExampleTasks
    /\ uncertainty = 0
    /\ num_iterations = MaxIterations
    /\ Len(simulation_results.durations) = MaxIterations
    /\ \A i \in DOMAIN simulation_results.durations :
          simulation_results.durations[i] = 35 * Scale

C4_EmptyTaskListRejected ==
    (pc = "mc_done" /\ caller = "api" /\ tasks = <<>>)
    => /\ raised = "InvalidInput"
       /\ ~simulation_results.returned

\* C5: a call with an iteration count below 1 or a negative uncertainty fails
\* with InvalidInput and returns nothing
C5_BadCountOrUncertaintyRejected ==
    (pc = "mc_done" /\ caller = "api"
       /\ (num_iterations < 1 \/ uncertainty < 0))
    => /\ raised = "InvalidInput"
       /\ ~simulation_results.returned

\* C6: a task of baseline duration 0 gets the sample 0 in every trial, whatever
\* the uncertainty, and the call never raises
C6_ZeroDurationTask ==
    /\ in_simulation => raised = "none"
    /\ \A i \in DOMAIN simulated_durations :
          baseline_durations(tasks)[i] = 0 => simulated_durations[i] = 0
    /\ TaskDurationSum(tasks) = 0 =>
          /\ \A i \in DOMAIN simulation_durations : simulation_durations[i] = 0
          /\ \A i \in DOMAIN simulation_results.durations :
                simulation_results.durations[i] = 0

C6_Witness ==
    /\ pc = "mc_loop"
    /\ raised = "none"
    /\ uncertainty = 150
    /\ Len(simulation_durations) = MaxIterations
    /\ \E i \in DOMAIN simulated_durations :
          /\ baseline_durations(tasks)[i] = 0
          /\ simulated_durations[i] = 0
    /\ \E i \in DOMAIN simulated_durations : simulated_durations[i] # 0

\* C7: the confidence-level durations are ordered as their levels,
\* percentile(50) <= percentile(80) <= percentile(90) <= percentile(95), for
\* every non-empty durations result and every selection of levels shown
C7_PercentileMonotone ==
    /\ (simulation_results.returned /\ simulation_results.durations # <<>>) =>
          /\ percentile(simulation_results.durations, 50)
                <= percentile(simulation_results.durations, 80)
          /\ percentile(simulation_results.durations, 80)
                <= percentile(simulation_results.durations, 90)
          /\ percentile(simulation_results.durations, 90)
                <= percentile(simulation_results.durations, 95)
    /\ \A l1, l2 \in DOMAIN confidence_results :
          confidence_percentiles[l1] <= confidence_percentiles[l2]
          => /\ confidence_results[l1].days <= confidence_results[l2].days
             /\ confidence_results[l1].date <= confidence_results[l2].date

C7_Witness ==
    /\ pc = "view_done"
    /\ confidence_levels = ConfidenceLabels
    /\ DOMAIN confidence_results = ConfidenceLabels
    /\ simulation_results.durations[1] > simulation_results.durations[2]
    /\ confidence_results["50%"].days < confidence_results["80%"].days
    /\ confidence_results["90%"].days < confidence_results["95%"].days

-----------------------------------------------------------------------------
(* Properties of the risk impact scorer *)

\* a fraction [num, den] lies in [lo, hi]
FractionWithin(f, lo, hi) == f.den > 0 /\ lo * f.den <= f.num /\ f.num <= hi * f.den

\* C8: for every risk list and every objective list the call returns one
\* combined impact score per objective, in the order of the objectives, each
\* in [0, 10]
C8_CombinedImpactBounds ==
    pc = "ria_done" =>
       /\ impact_results.returned
       /\ impact_results.combined_impact.objectives = objectives
       /\ Len(impact_results.combined_impact.impact_scores) = Len(objectives)
       /\ \A j \in DOMAIN impact_results.combined_impact.impact_scores :
             FractionWithin(impact_results.combined_impact.impact_scores[j], 0, 10)

\* C9: with no risks and some objectives the call does not fail: it returns an
\* empty impact matrix and the combined impact 0 for every objective
C9_EmptyRiskListPermitted ==
    (pc = "ria_done" /\ risks = <<>> /\ objectives # <<>>) =>
       /\ raised = "none"
       /\ impact_results.returned
       /\ impact_results.impact_matrix = <<>>
       /\ Len(impact_results.combined_impact.impact_scores) = Len(objectives)
       /\ \A j \in DOMAIN impact_results.combined_impact.impact_scores :
             impact_results.combined_impact.impact_scores[j].num = 0

\* the level strings of risk number i, as analyze_risk_impacts reads them
SeverityOf(i) == Get(risks[i], "severity", "Medium")
ProbabilityOf(i) == Get(risks[i], "probability", "Medium")

\* C10 as stated: a severity or probability that is not Low, Medium or High,
\* whatever its case, is scored 2
C10_NotLowMediumHighScoresTwo ==
    \A i \in DOMAIN base_scores :
       /\ Lower(SeverityOf(i)) \notin {"low", "medium", "high"}
             => base_scores[i].severity_score = 2
       /\ Lower(ProbabilityOf(i)) \notin {"low", "medium", "high"}
             => base_scores[i].probability_score = 2

\* C10 amended: a severity or probability that is none of high, h, medium,
\* med, m, low, l, whatever its case, is scored 2 as Medium is, and is never
\* rejected: the risk is scored and its base score is that of the same risk
\* with Medium in the string's place
C10_UnknownLevelScoresTwo ==
    /\ pc = "ria_loop" => raised = "none"
    /\ Len(base_scores) = IF pc = "ria_loop" THEN Len(impact_matrix)
                          ELSE Len(risks)
    /\ \A i \in DOMAIN base_scores :
          /\ Lower(SeverityOf(i)) \notin {"high", "h", "medium", "med", "m", "low", "l"}
                => /\ base_scores[i].severity_score = 2
                   /\ base_scores[i].base_score
                         = 2 * base_scores[i].probability_score
          /\ Lower(ProbabilityOf(i)) \notin {"high", "h", "medium", "med", "m", "low", "l"}
                => /\ base_scores[i].probability_score = 2
                   /\ base_scores[i].base_score
                         = base_scores[i].severity_score * 2
          /\ Lower(SeverityOf(i)) = "medium" => base_scores[i].severity_score = 2
          /\ Lower(ProbabilityOf(i)) = "medium"
                => base_scores[i].probability_score = 2

C10_Witness ==
    /\ pc = "ria_done"
    /\ impact_results.returned
    /\ \E i \in DOMAIN base_scores :
          /\ SeverityOf(i) = "unknown_string"
          /\ ProbabilityOf(i) = "Medium"
          /\ base_scores[i].severity_score = 2
          /\ base_scores[i].base_score = 4
    /\ \E i \in DOMAIN base_scores :
          /\ ProbabilityOf(i) = "critical"
          /\ base_scores[i].probability_score = 2

\* the spellings of the three levels among the strings drawn
LowSpellings == {"Low", "LOW", "low"}
MediumSpellings == {"Medium", "MEDIUM", "medium"}
HighSpellings == {"High", "HIGH", "high"}

\* the score the claims give a level string: Low 1, Medium 2, High 3
LevelScore(level) ==
    CASE level \in LowSpellings -> 1
      [] level \in MediumSpellings -> 2
      [] level \in HighSpellings -> 3

\* C11: Low scores 1, Medium 2 and High 3 in any case of the letters, and the
\* base score of a risk is its severity score times its probability score,
\* always one of 1, 2, 3, 4, 6, 9
C11_LevelScoresAndBaseScore ==
    \A i \in DOMAIN base_scores :
       /\ SeverityOf(i) \in LowSpellings \cup MediumSpellings \cup HighSpellings
             => base_scores[i].severity_score = LevelScore(SeverityOf(i))
       /\ ProbabilityOf(i) \in LowSpellings \cup MediumSpellings \cup HighSpellings
             => base_scores[i].probability_score = LevelScore(ProbabilityOf(i))
       /\ base_scores[i].base_score
             = base_scores[i].severity_score * base_scores[i].probability_score
       /\ base_scores[i].base_score \in {1, 2, 3, 4, 6, 9}

C11_Witness ==
    /\ pc = "ria_done"
    /\ \E i \in DOMAIN base_scores :
          /\ SeverityOf(i) = "High" /\ ProbabilityOf(i) = "High"
          /\ base_scores[i].base_score = 9
    /\ \E i \in DOMAIN base_scores :
          /\ SeverityOf(i) = "LOW" /\ ProbabilityOf(i) = "low"
          /\ base_scores[i].base_score = 1


\* the three impact levels
ImpactLevels == {"Low", "Medium", "High"}

\* C12: the adjusted value is weight * (baseScore / 4.5) * jitter with the
\* jitter in [0.8, 1.2]; the level returned is High exactly when it is above
\* 0.66, Medium exactly when it is above 0.33 and at most 0.66, Low exactly when
\* it is at most 0.33, and it is always one of the three.  With the weight in
\* tenths and the jitter in thousandths, adjusted > 0.66 is
\* 100 * weight * baseScore * jitter > 66 * 45000.
C12_ImpactLevelThresholds ==
    /\ impact_level_call.returned =>
          LET jitter == 800 + 4 * impact_level_call.random
              adjusted == 100 * impact_level_call.impact_prob
                          * impact_level_call.base_score * jitter
              level == impact_level_call.impact_level
          IN  /\ 800 <= jitter /\ jitter <= 1200
              /\ level = "High" <=> adjusted > 66 * 45000
              /\ level = "Medium" <=> (33 * 45000 < adjusted /\ adjusted <= 66 * 45000)
              /\ level = "Low" <=> adjusted <= 33 * 45000
              /\ level \in ImpactLevels
    /\ \A i \in DOMAIN impact_matrix : \A j \in DOMAIN objectives :
          impact_matrix[i][objectives[j]] \in ImpactLevels

\* weight 0.9, base score 3 and the draw 0.75: the adjusted value is 0.66
C12_Witness ==
    /\ pc = "gil_done"
    /\ impact_level_call.returned
    /\ impact_level_call.impact_prob = 9
    /\ impact_level_call.base_score = 3
    /\ impact_level_call.random = 75
    /\ impact_level_call.impact_level = "Medium"

\* the category of risk number i, as analyze_risk_impacts reads it
CategoryOf(i) == Get(risks[i], "category", "")

\* C13: a risk of severity High, probability High and category 'schedule' has
\* the impact level High on the objective 'Schedule', with the jitter 1.0 and
\* with every other jitter
C13_HighScheduleRiskIsHigh ==
    /\ (impact_level_call.returned /\ impact_level_call.risk_category = "schedule"
          /\ impact_level_call.objective = "Schedule"
          /\ impact_level_call.base_score = 9)
       => impact_level_call.impact_level = "High"
    /\ \A i \in DOMAIN impact_matrix :
          (SeverityOf(i) \in HighSpellings /\ ProbabilityOf(i) \in HighSpellings
             /\ CategoryOf(i) = "schedule"
             /\ \E j \in DOMAIN objectives : objectives[j] = "Schedule")
          => impact_matrix[i]["Schedule"] = "High"

C13_Witness ==
    /\ pc = "ria_done"
    /\ impact_results.returned
    /\ risks # <<>>
    /\ SeverityOf(1) = "High" /\ ProbabilityOf(1) = "High"
    /\ CategoryOf(1) = "schedule"
    /\ objectives = <<"Schedule", "Budget", "Scope">>
    /\ impact_results.impact_matrix[1]["Schedule"] = "High"

\* the categories and objectives of the weight table
KnownCategories == {"technical", "schedule", "cost", "resource", "scope",
                    "quality", "external"}
KnownObjectives == {"Schedule", "Budget", "Scope", "Quality", "Resources"}

\* the default-weight row, in tenths: Schedule 0.6, Budget 0.6, Scope 0.5,
\* Quality 0.5, Resources 0.5
DefaultWeightRow ==
    [Schedule |-> 6, Budget |-> 6, Scope |-> 5, Quality |-> 5, Resources |-> 5]

\* C14: an unknown, missing or empty category and an unknown objective are never
\* errors; an unknown category is scored with the default-weight row, and an
\* unknown objective with the weight 0.5 of that row, whatever the category
C14_UnknownCategoryOrObjective ==
    /\ impact_level_call.returned =>
          /\ raised = "none"
          /\ impact_level_call.impact_level \in ImpactLevels
          /\ (impact_level_call.risk_category \notin KnownCategories
                /\ impact_level_call.objective \in KnownObjectives)
             => impact_level_call.impact_prob
                   = DefaultWeightRow[impact_level_call.objective]
          /\ impact_level_call.objective \notin KnownObjectives
             => /\ impact_level_call.impact_prob = 5
                /\ \E o \in KnownObjectives :
                      impact_level_call.impact_prob = DefaultWeightRow[o]
    /\ pc = "ria_loop" =>
          /\ raised = "none"
          /\ \A i \in DOMAIN impact_matrix :
                DOMAIN impact_matrix[i]
                   = {"Risk"} \cup {objectives[j] : j \in DOMAIN objectives}

C14_Witness ==
    /\ pc = "gil_done"
    /\ impact_level_call.returned
    /\ impact_level_call.risk_category = ""
    /\ impact_level_call.objective = "Schedule"
    /\ impact_level_call.impact_prob = 6
    /\ impact_level_call.impact_level = "High"

\* no label occurs twice in the objective list
DistinctLabels(objs) == \A j, k \in DOMAIN objs : objs[j] = objs[k] => j = k

\* the radar entries of one risk agree with its row of the matrix
RadarScoresOfRow(entry, row) ==
    /\ entry.objectives = objectives
    /\ Len(entry.scores) = Len(objectives)
    /\ \A j \in DOMAIN entry.scores :
          entry.scores[j] \in {[num |-> 10 * k, den |-> 3] : k \in 1..3}
    /\ DistinctLabels(objectives) =>
          \A j \in DOMAIN objectives :
             entry.scores[j] = [num |-> LevelScore(row[objectives[j]]) * 10, den |-> 3]

\* C15: for each risk the radar 'scores' has one entry per objective in the
\* order of the objectives, entry j being score(level) * 10 / 3 for the level
\* the risk's matrix row gives objective j (so 10/3, 20/3 or 10), provided the
\* objective labels are distinct
C15_RadarScores ==
    /\ Len(risk_scores) = Len(impact_matrix)
    /\ \A i \in DOMAIN risk_scores :
          RadarScoresOfRow(risk_scores[i], impact_matrix[i])
    /\ impact_results.returned =>
          /\ Len(impact_results.risk_scores) = Len(risks)
          /\ \A i \in DOMAIN impact_results.risk_scores :
                RadarScoresOfRow(impact_results.risk_scores[i],
                                 impact_results.impact_matrix[i])

C15_Witness ==
    /\ pc = "ria_done"
    /\ impact_results.returned
    /\ objectives = <<"Schedule", "Budget", "Scope">>
    /\ Len(risks) = MaxRisks
    /\ impact_results.impact_matrix[1]["Schedule"] = "Low"
    /\ impact_results.impact_matrix[1]["Scope"] = "High"
    /\ impact_results.risk_scores[1].scores[1] = [num |-> 10, den |-> 3]
    /\ impact_results.risk_scores[1].scores[2] = [num |-> 20, den |-> 3]
    /\ impact_results.risk_scores[1].scores[3] = [num |-> 30, den |-> 3]

-----------------------------------------------------------------------------
(* Properties of the mitigation strategy ranking *)

\* the strategies of the selected risk are being simulated, or were
in_mitigation == pc \in {"mit_loop", "mit_done"} /\ selected_risk.found

\* the strategies were simulated and ranked
mitigation_ranked == pc = "mit_done" /\ selected_risk.found

\* C16: the initial score of the mitigation simulation is the severity score
\* times the probability score of the selected risk, with the mapping of the
\* impact scorer (an absent field counting as Medium); a risk of severity High
\* and probability High has the initial score 9
C16_InitialScoreFromSeverity ==
    in_mitigation =>
       LET severity == Get(selected_risk.risk, "severity", "Medium")
           probability == Get(selected_risk.risk, "probability", "Medium")
       IN  /\ initial_score = convert_level_to_score(severity)
                                * convert_level_to_score(probability)
           /\ (severity \in HighSpellings /\ probability \in HighSpellings)
                 => initial_score = 9
           /\ \A k \in DOMAIN mitigation_results :
                 mitigation_results[k].initial_score
                    = convert_level_to_score(severity)
                      * convert_level_to_score(probability)

\* C17: the cost-effectiveness of a candidate is reductionPercent / (cost / 1000)
\* when its cost is above 0 and 0 otherwise; a cost of 0 never raises, and the
\* candidate is in the ranked output
C17_CostEffectiveness ==
    /\ \A k \in DOMAIN mitigation_results :
          LET result == mitigation_results[k]
          IN  /\ result.cost_effectiveness.den > 0
              /\ result.cost > 0 =>
                    result.cost_effectiveness.num * result.cost
                       = result.reduction_percent * result.cost_effectiveness.den
              /\ result.cost <= 0 => result.cost_effectiveness.num = 0
    /\ pc = "mit_loop" => raised = "none"
    /\ (mitigation_ranked /\ strategies # <<>>) =>
          /\ raised = "none"
          /\ Len(mitigation_results) = Len(strategies)
          /\ \A i \in DOMAIN strategies :
                \E k \in DOMAIN mitigation_results :
                   /\ mitigation_results[k].strategy = strategies[i]
                   /\ mitigation_results[k].cost = implementation_costs[i]

C17_Witness ==
    /\ mitigation_ranked
    /\ raised = "none"
    /\ Len(mitigation_results) = 2
    /\ mitigation_results[1].cost = 5
    /\ mitigation_results[1].cost_effectiveness.num > 0
    /\ mitigation_results[1].cost_effectiveness
          = [num |-> mitigation_results[1].reduction_percent, den |-> 5]
    /\ mitigation_results[2].cost = 0
    /\ mitigation_results[2].reduction_percent > 0
    /\ mitigation_results[2].cost_effectiveness.num = 0

\* the cost-effectiveness of a is at least that of b; equal to that of b
AtLeastAsEffective(a, b) ==
    a.cost_effectiveness.num * b.cost_effectiveness.den
       >= b.cost_effectiveness.num * a.cost_effectiveness.den

EquallyEffective(a, b) == AtLeastAsEffective(a, b) /\ AtLeastAsEffective(b, a)

\* C18: the ranked results are a permutation of the input candidates in
\* non-increasing order of cost-effectiveness, and the recommended strategy is
\* the first of them, its cost-effectiveness at least that of every other
C18_RankedDescending ==
    mitigation_ranked =>
       /\ Len(mitigation_results) = Len(strategies)
       /\ \E f \in Permutations(DOMAIN strategies) :
             \A k \in DOMAIN mitigation_results :
                /\ mitigation_results[k].strategy = strategies[f[k]]
                /\ mitigation_results[k].cost = implementation_costs[f[k]]
       /\ \A k, l \in DOMAIN mitigation_results :
             k < l => AtLeastAsEffective(mitigation_results[k], mitigation_results[l])
       /\ best_strategy.recommended =>
             /\ best_strategy.result = mitigation_results[1]
             /\ \A k \in DOMAIN mitigation_results :
                   AtLeastAsEffective(best_strategy.result, mitigation_results[k])
       /\ best_strategy.recommended <=> strategies # <<>>

C18_Witness ==
    /\ mitigation_ranked
    /\ strategies = <<"Avoid", "Transfer", "Accept">>
    /\ best_strategy.recommended
    /\ best_strategy.result.strategy = "Accept"
    /\ mitigation_results[2].strategy = "Avoid"
    /\ mitigation_results[3].strategy = "Transfer"
    /\ ~AtLeastAsEffective(mitigation_results[2], mitigation_results[1])
    /\ ~AtLeastAsEffective(mitigation_results[3], mitigation_results[2])

\* the place of a strategy in the input, when the input's lines are distinct
PlaceOf(strategy) == CHOOSE i \in DOMAIN strategies : strategies[i] = strategy

\* C19: two candidates of identical cost-effectiveness (both of cost 0, say)
\* are in the ranked output in the order they have in the input
C19_EqualKeysKeepInputOrder ==
    (mitigation_ranked /\ DistinctLabels(strategies)) =>
       \A k, l \in DOMAIN mitigation_results :
          (k < l /\ EquallyEffective(mitigation_results[k], mitigation_results[l]))
          => PlaceOf(mitigation_results[k].strategy)
                < PlaceOf(mitigation_results[l].strategy)

C19_Witness ==
    /\ mitigation_ranked
    /\ strategies = <<"Avoid", "Transfer", "Accept">>
    /\ implementation_costs = <<0, 5, 0>>
    /\ mitigation_results[1].strategy = "Transfer"
    /\ mitigation_results[2].strategy = "Avoid"
    /\ mitigation_results[3].strategy = "Accept"
    /\ mitigation_results[2].reduction_percent
          # mitigation_results[3].reduction_percent

-----------------------------------------------------------------------------
(* Properties of both functions *)

\* the least and the greatest total a trial can have for the call's arguments
LeastTotal ==
    LET a == TaskDurationSum(tasks) * (Scale - uncertainty)
        b == TaskDurationSum(tasks) * (Scale + uncertainty)
    IN  IF a <= b THEN a ELSE b

GreatestTotal ==
    LET a == TaskDurationSum(tasks) * (Scale - uncertainty)
        b == TaskDurationSum(tasks) * (Scale + uncertainty)
    IN  IF a <= b THEN b ELSE a

\* what a call returned is made from the arguments of that call alone: as many
\* trials as asked for, every total one the task list and the uncertainty
\* allow, every date counted from this call's start; one matrix row and one
\* radar entry per risk of this call, named after it, and the call's objectives
ResultFromArguments ==
    /\ simulation_results.returned =>
          /\ Len(simulation_results.durations)
                = IF num_iterations > 0 THEN num_iterations ELSE 0
          /\ Len(simulation_results.completion_dates)
                = Len(simulation_results.durations)
          /\ \A i \in DOMAIN simulation_results.durations :
                /\ LeastTotal <= simulation_results.durations[i]
                /\ simulation_results.durations[i] <= GreatestTotal
                /\ simulation_results.completion_dates[i]
                      = baseline_start + simulation_results.durations[i]
    /\ impact_results.returned =>
          /\ Len(impact_results.impact_matrix) = Len(risks)
          /\ Len(impact_results.risk_scores) = Len(risks)
          /\ \A i \in DOMAIN impact_results.impact_matrix :
                /\ impact_results.impact_matrix[i]["Risk"]
                      = Get(risks[i], "description", "Unknown Risk")
                /\ impact_results.risk_scores[i].objectives = objectives
          /\ impact_results.combined_impact.objectives = objectives

\* C20: run_monte_carlo_simulation and analyze_risk_impacts leave their
\* arguments as they were, in every step of a call, and keep nothing from one
\* call to the next: what a call returns is made from its own arguments (and
\* its draws), also when an earlier call came before it.  A result is made
\* or dropped only in a step that changes pc.
C20_NoStateBetweenCalls ==
    [][ /\ pc = "mc_loop" => UNCHANGED <<tasks, uncertainty, num_iterations>>
        /\ pc = "ria_loop" => UNCHANGED <<risks, objectives>>
        /\ pc' = pc => UNCHANGED <<simulation_results, impact_results>>
        /\ pc' # pc => ResultFromArguments' ]_vars

\* a call of run_monte_carlo_simulation has returned, at a later reading of
\* the clock than day 0
C20_Witness ==
    /\ pc = "mc_done"
    /\ simulation_results.returned
    /\ tasks = ExampleTasks
    /\ num_iterations = MaxIterations
    /\ baseline_start = MaxClock * Scale
    /\ Len(simulation_results.durations) = MaxIterations

-----------------------------------------------------------------------------
(* Further properties of the schedule simulator *)

\* every task's baseline duration is 0 or more
DurationsNotNegative ==
    \A i \in DOMAIN tasks : baseline_durations(tasks)[i] >= 0

\* C21: for task durations of 0 or more, one iteration or more and any
\* uncertainty of 0 or more, values above 1 included, the call does not raise
\* and every element of 'durations' is 0 or more
C21_DurationsNonNegative ==
    (simulation_over /\ DurationsNotNegative /\ num_iterations >= 1
       /\ uncertainty >= 0)
    => /\ raised = "none"
       /\ simulation_results.returned
       /\ \A i \in DOMAIN simulation_results.durations :
             simulation_results.durations[i] >= 0

\* C22: in every trial each task of baseline duration d has one sample in
\* [d * (1 - u), d * (1 + u)], and the trial's total is the sum of the samples
\* of all tasks supplied; for u in [0, 1] every total lies in
\* [S * (1 - u), S * (1 + u)], S being the sum of the baseline durations,
\* whatever the order and the 'critical' flags of the tasks
C22_SampleRangeAndFlatSum ==
    /\ (pc = "mc_loop" /\ simulation_durations # <<>>) =>
          /\ Len(simulated_durations) = Len(tasks)
          /\ simulation_durations[Len(simulation_durations)]
                = SumSeq(simulated_durations)
          /\ uncertainty >= 0 =>
                \A i \in DOMAIN simulated_durations :
                   LET d == IF "duration" \in DOMAIN tasks[i]
                            THEN tasks[i].duration ELSE 0
                   IN  /\ d * (Scale - uncertainty) <= simulated_durations[i]
                       /\ simulated_durations[i] <= d * (Scale + uncertainty)
    /\ uncertainty \in 0..Scale =>
          /\ \A i \in DOMAIN simulation_durations :
                /\ TaskDurationSum(tasks) * (Scale - uncertainty)
                      <= simulation_durations[i]
                /\ simulation_durations[i]
                      <= TaskDurationSum(tasks) * (Scale + uncertainty)
          /\ \A i \in DOMAIN simulation_results.durations :
                /\ TaskDurationSum(tasks) * (Scale - uncertainty)
                      <= simulation_results.durations[i]
                /\ simulation_results.durations[i]
                      <= TaskDurationSum(tasks) * (Scale + uncertainty)

\* a trial of two tasks, one of them not critical, with samples at both ends
\* of their ranges
C22_Witness ==
    /\ pc = "mc_loop"
    /\ uncertainty = 50
    /\ Len(tasks) = 2
    /\ \E i \in DOMAIN tasks :
          "critical" \in DOMAIN tasks[i] /\ ~tasks[i].critical
    /\ Len(simulated_durations) = 2
    /\ simulated_durations[1] > 0 /\ simulated_durations[2] > 0
    /\ simulated_durations[1] = baseline_durations(tasks)[1] * (Scale - uncertainty)
    /\ simulated_durations[2] = baseline_durations(tasks)[2] * (Scale + uncertainty)
    /\ simulation_durations[Len(simulation_durations)]
          = simulated_durations[1] + simulated_durations[2]

\* the tasks of the project whose 'critical' flag is true, in their order
RECURSIVE CriticalTasks(_)
CriticalTasks(ts) ==
    IF ts = <<>> THEN <<>>
    ELSE IF "critical" \in DOMAIN Head(ts) /\ Head(ts).critical = TRUE
         THEN <<Head(ts)>> \o CriticalTasks(Tail(ts))
         ELSE CriticalTasks(Tail(ts))

\* C23: the view never calls the simulator with an empty task list: with no
\* task in the project, or with 'Focus on Critical Path Only' on and no task
\* critical, the run ends with a warning and without a result; otherwise the
\* tasks simulated are the project's tasks, or with the filter on exactly the
\* critical ones
C23_ViewNeverSimulatesNothing ==
    caller = "view" =>
       /\ (wbs = <<>> \/ (critical_path_focus /\ CriticalTasks(wbs) = <<>>))
          => /\ warning # "none"
             /\ pc = "view_done"
             /\ ~simulation_results.returned
             /\ simulation_durations = <<>>
       /\ ~(wbs = <<>> \/ (critical_path_focus /\ CriticalTasks(wbs) = <<>>))
          => /\ warning = "none"
             /\ tasks # <<>>
             /\ tasks = IF critical_path_focus THEN CriticalTasks(wbs) ELSE wbs

C23_Witness ==
    /\ pc = "view_done"
    /\ caller = "view"
    /\ critical_path_focus
    /\ Len(wbs) = 2
    /\ Len(tasks) = 1
    /\ tasks = CriticalTasks(wbs)
    /\ simulation_results.returned
    /\ Len(simulation_results.durations) = num_iterations

-----------------------------------------------------------------------------
(* Further properties of the risk impact scorer *)

\* the sum of the numerators of objective number j's radar scores (thirds)
RECURSIVE RadarSum(_, _)
RadarSum(entries, j) ==
    IF entries = <<>> THEN 0
    ELSE Head(entries).scores[j].num + RadarSum(Tail(entries), j)

\* C24: with distinct objective labels, the combined impact score of every
\* objective is the arithmetic mean, over the risks, of the objective's radar
\* scores: matrix, radar scores and combined impact rest on the same draws
C24_CombinedIsMeanOfRadar ==
    (impact_results.returned /\ DistinctLabels(objectives)) =>
       \A j \in DOMAIN objectives :
          LET combined == impact_results.combined_impact.impact_scores[j]
              entries == impact_results.risk_scores
          IN  /\ combined.den > 0
              /\ combined.num * (3 * Len(entries))
                    = RadarSum(entries, j) * combined.den
              /\ \A i \in DOMAIN entries :
                    entries[i].scores[j].den = 3
                    /\ entries[i].scores[j].num
                          = 10 * LevelScore(
                               impact_results.impact_matrix[i][objectives[j]])

C24_Witness ==
    /\ pc = "ria_done"
    /\ impact_results.returned
    /\ Len(risks) = 2
    /\ objectives = <<"Schedule", "Budget", "Scope">>
    /\ impact_results.risk_scores[1].scores[1] = [num |-> 30, den |-> 3]
    /\ impact_results.risk_scores[2].scores[1] = [num |-> 10, den |-> 3]
    /\ impact_results.combined_impact.impact_scores[1] = [num |-> 40, den |-> 6]

\* the name analyze_risk_impacts gives risk number i
RiskNameOf(i) == Get(risks[i], "description", "Unknown Risk")

\* C25: the impact matrix has one row per input risk, in input order, and the
\* radar list one entry per input risk, also when risks share a description:
\* the rows written so far are those of the risks handled so far, each with
\* levels its own risk can have
C25_OneRowPerRisk ==
    /\ Len(impact_matrix) = Len(base_scores)
    /\ Len(risk_scores) = Len(base_scores)
    /\ Len(impact_matrix) <= Len(risks)
    /\ pc = "ria_done" => Len(impact_matrix) = Len(risks)
    /\ \A i \in DOMAIN impact_matrix :
          /\ impact_matrix[i]["Risk"] = RiskNameOf(i)
          /\ risk_scores[i].risk = RiskNameOf(i)
          /\ \A j \in DOMAIN objectives :
                impact_matrix[i][objectives[j]]
                   \in generate_impact_level(Lower(CategoryOf(i)), objectives[j],
                                             base_scores[i].base_score)
    /\ impact_results.returned =>
          /\ impact_results.impact_matrix = impact_matrix
          /\ impact_results.risk_scores = risk_scores

C25_Witness ==
    /\ pc = "ria_done"
    /\ impact_results.returned
    /\ Len(risks) = 2
    /\ RiskNameOf(1) = RiskNameOf(2)
    /\ objectives = <<"Schedule">>
    /\ Len(impact_results.impact_matrix) = 2
    /\ impact_results.impact_matrix[1]["Schedule"] = "High"
    /\ impact_results.impact_matrix[2]["Schedule"] = "Medium"

\* the rank of an impact level
LevelRank(level) ==
    CASE level = "Low" -> 1 [] level = "Medium" -> 2 [] level = "High" -> 3

\* C26: a base score of 1 gives the impact level Low for every category, every
\* objective and every jitter; and for a fixed weight and a fixed jitter a
\* higher base score never gives a lower impact level
C26_BaseScoreOneIsLow ==
    /\ impact_level_call.returned =>
          /\ impact_level_call.base_score = 1
                => impact_level_call.impact_level = "Low"
          /\ \A higher \in BaseScores :
                higher >= impact_level_call.base_score
                => LevelRank(impact_level_of_draw(impact_level_call.risk_category,
                                                  impact_level_call.objective,
                                                  higher, impact_level_call.random))
                      >= LevelRank(impact_level_call.impact_level)
    /\ \A i \in DOMAIN impact_matrix :
          base_scores[i].base_score = 1 =>
             \A j \in DOMAIN objectives : impact_matrix[i][objectives[j]] = "Low"

C26_Witness ==
    /\ pc = "gil_done"
    /\ impact_level_call.returned
    /\ impact_level_call.impact_prob = 9
    /\ impact_level_call.base_score = 1
    /\ impact_level_call.random = 99
    /\ impact_level_call.impact_level = "Low"

-----------------------------------------------------------------------------
(* Further properties of the mitigation strategy ranking *)

\* C27: the initial risk score, the divisor of the reduction percentage, is
\* one of 1, 2, 3, 4, 6, 9 and so at least 1, whatever strings the risk has
\* and whatever fields it lacks; the reduction is computed without a division
\* by zero
C27_InitialScoreAtLeastOne ==
    in_mitigation =>
       /\ initial_score \in {1, 2, 3, 4, 6, 9}
       /\ initial_score >= 1
       /\ initial_score = calculate_risk_score(selected_risk.risk)
       /\ raised # "ZeroDivisionError"
       /\ \A k \in DOMAIN mitigation_results :
             mitigation_results[k].initial_score = initial_score
       /\ \A risk \in RiskRecords :
             calculate_risk_score(risk) \in {1, 2, 3, 4, 6, 9}

\* the selected risk has free text for 'impact' and no 'category'
C27_Witness ==
    /\ mitigation_ranked
    /\ raised = "none"
    /\ selected_risk.risk = VendorRiskFreeText
    /\ initial_score = 6
    /\ Len(mitigation_results) = 2
    /\ mitigation_results[1].reduction_percent > 0

\* C28: for every setting of the two sliders and every pair of jitter factors
\* the new risk score is between 0 and the initial score, and the reduction
\* percentage between 0 and 100
C28_NewScoreWithinBounds ==
    \A k \in DOMAIN mitigation_results :
       LET result == mitigation_results[k]
       IN  /\ 0 <= result.new_score.num
           /\ result.new_score.num <= result.initial_score * result.new_score.den
           /\ 0 <= result.reduction_percent
           /\ result.reduction_percent <= 100 * PercentUnit

-----------------------------------------------------------------------------
(* Properties of the resource scenarios *)

\* a scenario "Schedule Optimized" has been worked out and saved
resource_scenario_saved == pc = "res_done" /\ resource_notice = "none"

\* C29: "Optimize for Schedule" conserves work: whenever the capacity, the
\* sum over the resources of availability times the allowed over-allocation
\* factor, is at least the total allocation, the scenario's resources are
\* allocated in total what the project's resources were, and none of them
\* more than its availability times the allowed factor.
C29_WorkConserved ==
    resource_scenario_saved =>
       LET allowed == max_allowed(allow_overallocation, max_overallocation)
           before == sum_of(resources, "allocated") * Scale
           after == sum_of(scenario_resources, "allocated")
       IN  sum_of(resources, "availability") * allowed >= before =>
              /\ after = before
              /\ \A i \in DOMAIN scenario_resources :
                    scenario_resources[i].allocated
                       <= scenario_resources[i].availability * allowed

-----------------------------------------------------------------------------
(* Properties of the budget scenarios *)

\* the handler of "Run Budget Scenario Analysis" has ended, by returning or
\* by raising, after inputs that passed the input checks
budget_analysis_over == pc = "bud_done" /\ budget_notice = "none"

\* C30: after "Run Budget Scenario Analysis" with inputs that pass the input
\* checks, of any of the three scenario types, on a budget of two or more
\* categories, the analysis has ended without raising and has stored exactly
\* one entry in st.session_state.budget_scenarios, whose 'spent' is the
\* mapping from category to scenario spent and whose 'scenario_spent' is the
\* sum of that mapping.
C30_BudgetScenarioStored ==
    (budget_analysis_over /\ Cardinality(DOMAIN budget.categories) >= 2) =>
       /\ raised = "none"
       /\ Cardinality(DOMAIN budget_scenarios) = 1
       /\ \A id \in DOMAIN budget_scenarios :
             /\ budget_scenarios[id].spent.is_dict
             /\ budget_scenarios[id].scenario_spent
                   = sum_values(budget_scenarios[id].spent.value)

=============================================================================
